---- MODULE Spec2Model ----
(***************************************************************************)
(* A model of the credential/session core of ciam-cli:                     *)
(*   ciam/util.py    redact_secrets                                        *)
(*   ciam/output.py  OutputLogger, get_logger, reset_logger                *)
(*   ciam/auth.py    TokenManager                                          *)
(*   ciam/http.py    APIClient                                             *)
(*   ciam/handlers/  get_user, get_group, get_org, get_product, get_store  *)
(*   ciam/config.py  ConfigManager                                         *)
(*   ciam/cli.py     the command handlers                                  *)
(*                                                                         *)
(* Text is a sequence of strings (characters or whole words), so that      *)
(* lower-casing, substring search, base64 and int() are computed rather    *)
(* than assumed.  Python values are tagged records:                        *)
(*   S(text)  a str         N(n)  an int                                   *)
(*   M(f)     a dict (a function on its keys)   L(q)       a list          *)
(*   PyNone   None / JSON null                                             *)
(***************************************************************************)
EXTENDS Integers, Sequences, FiniteSets, TLC

VARIABLES
    now,        \* datetime.utcnow(), in seconds
    tokens,     \* TokenManager.tokens: kind -> PyNone or the cached token
    loggers,    \* every OutputLogger object created so far
    g_logger,   \* output._logger: 0 for None, else an index into loggers
    last,       \* the last operation: its arguments, outcome and HTTP traffic
    issued,     \* history: per kind, when the cached token was received, the
                \* expires_in its response carried, and the (region, env)
                \* whose token endpoint sent it
    rdata,      \* redact_secrets: the argument data
    rverbose,   \* redact_secrets: the argument verbose
    rout,       \* redact_secrets: the value returned, or Pending
    client,     \* the APIClient object, or PyNone before it is constructed
    files,      \* the files written by write_to_file: path -> document
    logged,     \* history: per logger object, how many entries it was given
    call,       \* the last logger or API client call: arguments and outcome
    config,     \* ConfigManager.config, or PyNone before it is constructed
    config_file, \* the document in ~/.config-ciam-cli, or Absent
    threads     \* the get_token calls in progress, one per thread

vars == <<now, tokens, loggers, g_logger, last, issued, rdata, rverbose, rout,
          client, files, logged, call, config, config_file, threads>>

tmVars == <<now, tokens, loggers, g_logger, last, issued>>
redactVars == <<rdata, rverbose, rout>>
apiVars == <<client, files, logged, call>>
cfgVars == <<config, config_file>>
thrVars == <<threads>>

-----------------------------------------------------------------------------
(* Python values *)

S(x) == [t |-> "s", s |-> x]
N(n) == [t |-> "n", n |-> n]
M(f) == [t |-> "m", m |-> f]
L(q) == [t |-> "l", l |-> q]
PyNone == [t |-> "none"]

EmptyMap == [k \in {} |-> PyNone]

\* Python truthiness: bool(v)
Truthy(v) ==
    CASE v.t = "none" -> FALSE
      [] v.t = "s" -> v.s # <<>>
      [] v.t = "n" -> v.n # 0
      [] v.t = "m" -> DOMAIN v.m # {}
      [] v.t = "l" -> v.l # <<>>
      [] OTHER -> TRUE

\* dict.get(key): the value, or None when the key is absent
DictGet(d, key) == IF key \in DOMAIN d.m THEN d.m[key] ELSE PyNone

\* A local variable: Op applied to the value of v, with v evaluated once
Bind(v, Op(_)) == CHOOSE r \in { Op(x) : x \in {v} } : TRUE

-----------------------------------------------------------------------------
(* Text *)

UpperChars == <<"A","B","C","D","E","F","G","H","I","J","K","L","M","N","O","P","Q","R","S","T","U","V","W","X","Y","Z">>
LowerChars == <<"a","b","c","d","e","f","g","h","i","j","k","l","m","n","o","p","q","r","s","t","u","v","w","x","y","z">>
DigitChars == <<"0","1","2","3","4","5","6","7","8","9">>

IndexIn(c, table) == CHOOSE i \in 1..Len(table) : table[i] = c
InTable(c, table) == \E i \in 1..Len(table) : table[i] = c

\* str.lower() and str.upper(), one character at a time
LowerChar(c) == IF InTable(c, UpperChars) THEN LowerChars[IndexIn(c, UpperChars)] ELSE c
UpperChar(c) == IF InTable(c, LowerChars) THEN UpperChars[IndexIn(c, LowerChars)] ELSE c
Lower(text) == [i \in 1..Len(text) |-> LowerChar(text[i])]
Upper(text) == [i \in 1..Len(text) |-> UpperChar(text[i])]

\* Python's `needle in hay` on strings
Contains(needle, hay) ==
    \E i \in 0..(Len(hay) - Len(needle)) : SubSeq(hay, i + 1, i + Len(needle)) = needle

\* The mapping keys the model uses, and the characters of each
Keys ==
    {"method", "url", "headers", "body", "params", "status_code", "Authorization",
     "Content-Type", "grant_type", "client_id", "client_secret", "access_token",
     "expires_in", "X-Store-Id", "PASSWORD", "Bearer", "apiKey", "Credentials",
     "name", "error"}

Chars(k) ==
    CASE k = "method" -> <<"m","e","t","h","o","d">>
      [] k = "url" -> <<"u","r","l">>
      [] k = "headers" -> <<"h","e","a","d","e","r","s">>
      [] k = "body" -> <<"b","o","d","y">>
      [] k = "params" -> <<"p","a","r","a","m","s">>
      [] k = "status_code" -> <<"s","t","a","t","u","s","_","c","o","d","e">>
      [] k = "Authorization" -> <<"A","u","t","h","o","r","i","z","a","t","i","o","n">>
      [] k = "Content-Type" -> <<"C","o","n","t","e","n","t","-","T","y","p","e">>
      [] k = "grant_type" -> <<"g","r","a","n","t","_","t","y","p","e">>
      [] k = "client_id" -> <<"c","l","i","e","n","t","_","i","d">>
      [] k = "client_secret" -> <<"c","l","i","e","n","t","_","s","e","c","r","e","t">>
      [] k = "access_token" -> <<"a","c","c","e","s","s","_","t","o","k","e","n">>
      [] k = "expires_in" -> <<"e","x","p","i","r","e","s","_","i","n">>
      [] k = "X-Store-Id" -> <<"X","-","S","t","o","r","e","-","I","d">>
      [] k = "PASSWORD" -> <<"P","A","S","S","W","O","R","D">>
      [] k = "Bearer" -> <<"B","e","a","r","e","r">>
      [] k = "apiKey" -> <<"a","p","i","K","e","y">>
      [] k = "Credentials" -> <<"C","r","e","d","e","n","t","i","a","l","s">>
      [] k = "name" -> <<"n","a","m","e">>
      [] k = "error" -> <<"e","r","r","o","r">>

-----------------------------------------------------------------------------
(* ciam/util.py: redact_secrets *)

REDACTED == S(<<"***REDACTED***">>)

\* ["password", "secret", "authorization", "bearer"]
AlwaysNeedles_NoAuthorization ==
    { <<"p","a","s","s","w","o","r","d">>,
      <<"s","e","c","r","e","t">>,
      <<"b","e","a","r","e","r">> }

AlwaysNeedles_NoBearer ==
    { <<"p","a","s","s","w","o","r","d">>,
      <<"s","e","c","r","e","t">>,
      <<"a","u","t","h","o","r","i","z","a","t","i","o","n">> }

AlwaysNeedles ==
    { <<"p","a","s","s","w","o","r","d">>,
      <<"s","e","c","r","e","t">>,
      <<"a","u","t","h","o","r","i","z","a","t","i","o","n">>,
      <<"b","e","a","r","e","r">> }

\* ["token", "key", "credential", "access"]
QuietNeedles_NoKey ==
    { <<"t","o","k","e","n">>,
      <<"c","r","e","d","e","n","t","i","a","l">>,
      <<"a","c","c","e","s","s">> }

QuietNeedles ==
    { <<"t","o","k","e","n">>,
      <<"k","e","y">>,
      <<"c","r","e","d","e","n","t","i","a","l">>,
      <<"a","c","c","e","s","s">> }

\* any(x in key_lower for x in needles)
AnyIn(needles, key) ==
    Bind(Lower(Chars(key)), LAMBDA key_lower : \E x \in needles : Contains(x, key_lower))

\* The keys each test of redact_secrets matches, computed once
AlwaysRedactKeys == {key \in Keys : AnyIn(AlwaysNeedles, key)}
QuietRedactKeys == {key \in Keys : AnyIn(QuietNeedles, key)}

RECURSIVE redact_secrets_ListsUntouched(_, _)
redact_secrets_ListsUntouched(data, verbose) ==
    IF data.t = "m" THEN
        M([key \in DOMAIN data.m |->
            IF key \in AlwaysRedactKeys THEN REDACTED
            ELSE IF ~verbose /\ key \in QuietRedactKeys THEN REDACTED
            ELSE redact_secrets_ListsUntouched(data.m[key], verbose)])
    ELSE data

RECURSIVE redact_secrets(_, _)
redact_secrets(data, verbose) ==
    IF data.t = "m" THEN
        M([key \in DOMAIN data.m |->
            IF key \in AlwaysRedactKeys THEN REDACTED
            ELSE IF ~verbose /\ key \in QuietRedactKeys THEN REDACTED
            ELSE redact_secrets(data.m[key], verbose)])
    ELSE IF data.t = "l" THEN
        L([i \in 1..Len(data.l) |-> redact_secrets(data.l[i], verbose)])
    ELSE data

-----------------------------------------------------------------------------
(* Inputs of redact_secrets: every nested value of depth at most           *)
(* MaxDepth over a few scalars, keys and shapes.                           *)

MaxDepth == 3

RedactKeys == {"PASSWORD", "client_secret", "Authorization", "Bearer",
               "access_token", "name", "body"}

RedactScalars == {S(<<"v">>), REDACTED}

RECURSIVE RedactInputs(_)
RedactInputs(d) ==
    IF d = 0 THEN RedactScalars \cup {M(EmptyMap), L(<<>>)}
    ELSE LET sub == RedactInputs(d - 1) IN
         sub
         \cup { M([k \in {key} |-> x]) : key \in RedactKeys, x \in sub }
         \cup { M([k \in {"name", "apiKey"} |-> IF k = "name" THEN x ELSE S(<<"v">>)]) : x \in sub }
         \cup { M([k \in {"PASSWORD", "body"} |-> IF k = "body" THEN x ELSE S(<<"v">>)]) : x \in sub }
         \cup { L(<<x>>) : x \in sub }
         \cup { L(<<S(<<"v">>), x>>) : x \in sub }

Pending == [t |-> "pending"]

RedactInit ==
    /\ rdata \in RedactInputs(MaxDepth)
    /\ rverbose \in BOOLEAN
    /\ rout = Pending

RedactCall ==
    /\ rout = Pending
    /\ rout' = redact_secrets(rdata, rverbose)
    /\ UNCHANGED <<rdata, rverbose>>

-----------------------------------------------------------------------------
(* ciam/output.py: OutputLogger, get_logger *)

\* datetime.utcnow().isoformat() + "Z"
Timestamp(t) == [t |-> "ts", ts |-> t]

\* OutputLogger.__init__
OutputLogger(verbose) == [verbose |-> verbose, entries |-> <<>>]

\* OutputLogger.log_entry on the logger object lg at time t
log_entry_AlwaysQuiet(lg, operation, request, response, error, t) ==
    LET present == {"timestamp", "operation"}
                   \cup (IF Truthy(request) THEN {"request"} ELSE {})
                   \cup (IF Truthy(response) THEN {"response"} ELSE {})
                   \cup (IF Truthy(error) THEN {"error"} ELSE {})
        entry == [k \in present |->
                    CASE k = "timestamp" -> Timestamp(t)
                      [] k = "operation" -> S(operation)
                      [] k = "request" -> redact_secrets(request, FALSE)
                      [] k = "response" -> redact_secrets(response, FALSE)
                      [] k = "error" -> error]
    IN [lg EXCEPT !.entries = Append(@, M(entry))]

log_entry(lg, operation, request, response, error, t) ==
    LET present == {"timestamp", "operation"}
                   \cup (IF Truthy(request) THEN {"request"} ELSE {})
                   \cup (IF Truthy(response) THEN {"response"} ELSE {})
                   \cup (IF Truthy(error) THEN {"error"} ELSE {})
        entry == [k \in present |->
                    CASE k = "timestamp" -> Timestamp(t)
                      [] k = "operation" -> S(operation)
                      [] k = "request" -> redact_secrets(request, lg.verbose)
                      [] k = "response" -> redact_secrets(response, lg.verbose)
                      [] k = "error" -> error]
    IN [lg EXCEPT !.entries = Append(@, M(entry))]

\* get_logger on the logger state ls = [loggers, g_logger]: the state after
\* the call; the logger returned is ls.loggers[ls.g_logger] of the result
get_logger(ls, verbose) ==
    IF ls.g_logger = 0
    THEN [loggers |-> Append(ls.loggers, OutputLogger(verbose)),
          g_logger |-> Len(ls.loggers) + 1]
    ELSE ls

\* reset_logger
reset_logger(ls) == [ls EXCEPT !.g_logger = 0]

\* strftime("%Y%m%d_%H%M%S") of utcnow() in f"output-{timestamp}.json"
OutputPath(t) == <<"output-", ToString(t), ".json">>

\* OutputLogger.write_to_file at time t on the files fs: the value returned
\* and the files after it.  json.dump writes the entries in list order; the
\* document is held as the list it parses back to
write_to_file_AlwaysWrites(lg, fs, t) ==
    [path |-> S(OutputPath(t)),
     files |-> [p \in DOMAIN fs \cup {OutputPath(t)} |->
                   IF p = OutputPath(t) THEN L(lg.entries) ELSE fs[p]]]

write_to_file(lg, fs, t) ==
    IF lg.entries = <<>>
    THEN [path |-> PyNone, files |-> fs]
    ELSE [path |-> S(OutputPath(t)),
          files |-> [p \in DOMAIN fs \cup {OutputPath(t)} |->
                        IF p = OutputPath(t) THEN L(lg.entries) ELSE fs[p]]]

\* OutputLogger.clear
clear(lg) == [lg EXCEPT !.entries = <<>>]

\* logger.log_entry(...) on the global logger of ls
LogVia(ls, operation, request, response, error, t) ==
    Bind(ls, LAMBDA s :
        [s EXCEPT !.loggers[s.g_logger] = log_entry(@, operation, request, response, error, t)])

-----------------------------------------------------------------------------
(* base64.b64encode on ASCII text *)

Ord(c) ==
    CASE InTable(c, DigitChars) -> 47 + IndexIn(c, DigitChars)
      [] InTable(c, UpperChars) -> 64 + IndexIn(c, UpperChars)
      [] InTable(c, LowerChars) -> 96 + IndexIn(c, LowerChars)
      [] c = ":" -> 58
      [] c = "-" -> 45
      [] c = "_" -> 95

B64Alphabet == UpperChars \o LowerChars \o DigitChars \o <<"+", "/", "=">>

\* The 6-bit groups of a byte sequence; 64 stands for a padding position
RECURSIVE Sextets(_)
Sextets(b) ==
    IF Len(b) = 0 THEN <<>>
    ELSE IF Len(b) = 1 THEN
        <<b[1] \div 4, (b[1] % 4) * 16, 64, 64>>
    ELSE IF Len(b) = 2 THEN
        <<b[1] \div 4, (b[1] % 4) * 16 + b[2] \div 16, (b[2] % 16) * 4, 64>>
    ELSE
        <<b[1] \div 4, (b[1] % 4) * 16 + b[2] \div 16,
          (b[2] % 16) * 4 + b[3] \div 64, b[3] % 64>>
        \o Sextets(SubSeq(b, 4, Len(b)))

b64encode(text) ==
    Bind(Sextets([i \in 1..Len(text) |-> Ord(text[i])]), LAMBDA six :
        [i \in 1..Len(six) |-> B64Alphabet[six[i] + 1]])

-----------------------------------------------------------------------------
(* ciam/auth.py: the token-endpoint table and the environment *)

R_us == <<"u","s">>
R_uk == <<"u","k">>
R_can == <<"c","a","n">>
R_anz == <<"a","n","z">>
E_dev == <<"d","e","v">>
E_qa == <<"q","a">>
E_uat == <<"u","a","t">>
E_prod == <<"p","r","o","d">>

\* The (region, env) keys of PINGONE_TOKEN_URLS: dev exists only for us
TokenUrlKeys ==
    { <<R_us, E_dev>>, <<R_us, E_qa>>, <<R_us, E_uat>>, <<R_us, E_prod>>,
      <<R_uk, E_qa>>, <<R_uk, E_uat>>, <<R_uk, E_prod>>,
      <<R_can, E_qa>>, <<R_can, E_uat>>, <<R_can, E_prod>>,
      <<R_anz, E_qa>>, <<R_anz, E_uat>>, <<R_anz, E_prod>> }

PINGONE_TOKEN_URLS ==
    [p \in TokenUrlKeys |->
        IF p[2] = E_prod
        THEN <<"https://auth-">> \o p[1] \o <<".pingone.com/oauth2/token">>
        ELSE <<"https://auth-">> \o p[1] \o <<"-">> \o p[2] \o <<".pingone.com/oauth2/token">>]

\* os.environ after load_dotenv(): us/dev holds both credentials of both
\* kinds, us/qa lacks the general secret and the clientops id, uk/dev (no
\* token endpoint) holds the general credentials only
Environ ==
    (<<"U","S","_","D","E","V","_","GENERAL","_CLIENT_ID">> :> <<"c","i","d">>)
    @@ (<<"U","S","_","D","E","V","_","GENERAL","_CLIENT_SECRET">> :> <<"c","s","e","c","r","e","t">>)
    @@ (<<"U","S","_","D","E","V","_","CLIENTOPS","_CLIENT_ID">> :> <<"c","i","d","2">>)
    @@ (<<"U","S","_","D","E","V","_","CLIENTOPS","_CLIENT_SECRET">> :> <<"c","s","e","c","r","e","t","2">>)
    @@ (<<"U","S","_","Q","A","_","GENERAL","_CLIENT_ID">> :> <<"q","i","d">>)
    @@ (<<"U","S","_","Q","A","_","CLIENTOPS","_CLIENT_SECRET">> :> <<"q","s">>)
    @@ (<<"U","K","_","D","E","V","_","GENERAL","_CLIENT_ID">> :> <<"k","i","d">>)
    @@ (<<"U","K","_","D","E","V","_","GENERAL","_CLIENT_SECRET">> :> <<"k","s">>)

\* os.getenv(name)
getenv(name) == IF name \in DOMAIN Environ THEN S(Environ[name]) ELSE PyNone

\* TokenManager._get_credential_env_var
get_credential_env_var(region, env, kind) ==
    LET prefix == Upper(region) \o <<"_">> \o Upper(env)
        suffix == IF kind = "general" THEN <<"GENERAL">> ELSE <<"CLIENTOPS">>
    IN [client_id |-> getenv(prefix \o <<"_">> \o suffix \o <<"_CLIENT_ID">>),
        client_secret |-> getenv(prefix \o <<"_">> \o suffix \o <<"_CLIENT_SECRET">>)]

FormContentType == S(<<"application/x-www-form-urlencoded">>)
ClientCredentials == S(<<"client_credentials">>)

\* TokenManager.prepare_general_request
prepare_general_request_SecretInBody(client_id, client_secret, token_url) ==
    [url |-> token_url,
     headers |-> M(("Authorization" :> S(<<"Basic ">> \o b64encode(client_id \o <<":">> \o client_secret)))
                   @@ ("Content-Type" :> FormContentType)),
     data |-> M(("grant_type" :> ClientCredentials)
                @@ ("client_secret" :> S(client_secret)))]

prepare_general_request(client_id, client_secret, token_url) ==
    LET creds == client_id \o <<":">> \o client_secret
        basic == b64encode(creds)
    IN [url |-> token_url,
        headers |-> M(("Authorization" :> S(<<"Basic ">> \o basic))
                      @@ ("Content-Type" :> FormContentType)),
        data |-> M("grant_type" :> ClientCredentials)]

\* TokenManager.prepare_clientops_request
prepare_clientops_request(client_id, client_secret, token_url) ==
    [url |-> token_url,
     headers |-> M("Content-Type" :> FormContentType),
     data |-> M(("grant_type" :> ClientCredentials)
                @@ ("client_id" :> S(client_id))
                @@ ("client_secret" :> S(client_secret)))]

-----------------------------------------------------------------------------
(* What requests.post can produce: a RequestException, or a response *)

NotJson == [t |-> "notjson"]
Absent == [t |-> "absent"]
NoNet == [k |-> "none"]

TransportError(msg) == [k |-> "error", msg |-> msg]
Response(status, json, text) ==
    [k |-> "response", status_code |-> status,
     headers |-> M("Content-Type" :> S(<<"application/json">>)),
     json |-> json, text |-> text]

\* Some outcome, for asking whether a call reaches requests.post at all
AnyNet == TransportError(<<"Connection refused">>)

TokA == <<"tokA">>
TokB == <<"tokB">>

\* A JSON object {access_token, expires_in?}
TokenBody(access_token, expires_in) ==
    M(IF expires_in = Absent
      THEN ("access_token" :> S(access_token))
      ELSE ("access_token" :> S(access_token)) @@ ("expires_in" :> expires_in))

ErrorBody == M("error" :> S(<<"invalid_client">>))

Nets ==
    { TransportError(<<"Connection refused">>),
      Response(401, ErrorBody, <<"{error}">>),
      Response(201, TokenBody(TokA, N(3600)), <<"{token}">>),
      Response(200, NotJson, <<"<html>">>),
      Response(200, ErrorBody, <<"{error}">>),
      Response(200, TokenBody(<<>>, N(3600)), <<"{token}">>),
      Response(200, TokenBody(TokA, N(3600)), <<"{token}">>),
      Response(200, TokenBody(TokB, Absent), <<"{token}">>),
      Response(200, TokenBody(TokA, N(0)), <<"{token}">>),
      Response(200, TokenBody(TokA, N(60)), <<"{token}">>),
      Response(200, TokenBody(TokA, S(<<"s","o","o","n">>)), <<"{token}">>) }

\* try: body = resp.json()  except Exception: body = resp.text
ResponseBody(resp) == IF resp.json = NotJson THEN S(resp.text) ELSE resp.json

-----------------------------------------------------------------------------
(* ciam/auth.py: TokenManager *)

MARGIN == 300
DEFAULT_EXPIRES_IN == 3600

\* The result of a call that raised before any HTTP call
Raised(why, ls) == [why |-> why, body |-> PyNone, ls |-> ls, sent |-> <<>>, net |-> NoNet]

\* The part both fetch methods share: log the request, POST it, log the
\* response or the error, and judge the status.  label is "general" or
\* "clientops", ls the logger state after get_logger(verbose=False).
RequestMeta(req) ==
    M(("method" :> S(<<"POST">>)) @@ ("url" :> S(req.url))
      @@ ("headers" :> req.headers) @@ ("body" :> req.data))

ResponseMeta(net, body) ==
    M(("status_code" :> N(net.status_code)) @@ ("headers" :> net.headers) @@ ("body" :> body))

PostAndLog_Not2xx(label, req, ls, net, t) ==
    Bind(LogVia(ls, <<"token_request:", label>>, RequestMeta(req), PyNone, PyNone, t), LAMBDA ls2 :
      IF net.k = "error"
      THEN [why |-> "fetch_failed_transport", body |-> PyNone,
            ls |-> LogVia(ls2, <<"token_response:", label>>, PyNone, PyNone, S(net.msg), t),
            sent |-> <<req>>, net |-> net]
      ELSE Bind(ResponseBody(net), LAMBDA body :
             Bind(LogVia(ls2, <<"token_response:", label>>, PyNone, ResponseMeta(net, body), PyNone, t),
                  LAMBDA ls3 :
               IF net.status_code < 200 \/ net.status_code > 299
               THEN [why |-> "fetch_failed_status", body |-> PyNone, ls |-> ls3,
                     sent |-> <<req>>, net |-> net]
               ELSE [why |-> "ok", body |-> body, ls |-> ls3, sent |-> <<req>>, net |-> net])))

PostAndLog_SilentTransport(label, req, ls, net, t) ==
    Bind(LogVia(ls, <<"token_request:", label>>, RequestMeta(req), PyNone, PyNone, t), LAMBDA ls2 :
      IF net.k = "error"
      THEN [why |-> "fetch_failed_transport", body |-> PyNone, ls |-> ls2,
            sent |-> <<req>>, net |-> net]
      ELSE Bind(ResponseBody(net), LAMBDA body :
             Bind(LogVia(ls2, <<"token_response:", label>>, PyNone, ResponseMeta(net, body), PyNone, t),
                  LAMBDA ls3 :
               IF net.status_code # 200
               THEN [why |-> "fetch_failed_status", body |-> PyNone, ls |-> ls3,
                     sent |-> <<req>>, net |-> net]
               ELSE [why |-> "ok", body |-> body, ls |-> ls3, sent |-> <<req>>, net |-> net])))

PostAndLog(label, req, ls, net, t) ==
    \* logger.log_entry(operation="token_request:...", request={...})
    Bind(LogVia(ls, <<"token_request:", label>>, RequestMeta(req), PyNone, PyNone, t), LAMBDA ls2 :
      IF net.k = "error"
      THEN \* except requests.RequestException as e
           [why |-> "fetch_failed_transport", body |-> PyNone,
            ls |-> LogVia(ls2, <<"token_response:", label>>, PyNone, PyNone, S(net.msg), t),
            sent |-> <<req>>, net |-> net]
      ELSE Bind(ResponseBody(net), LAMBDA body :
             Bind(LogVia(ls2, <<"token_response:", label>>, PyNone, ResponseMeta(net, body), PyNone, t),
                  LAMBDA ls3 :
               IF net.status_code # 200
               THEN \* RuntimeError: not a RequestException, so not caught below
                    [why |-> "fetch_failed_status", body |-> PyNone, ls |-> ls3,
                     sent |-> <<req>>, net |-> net]
               ELSE [why |-> "ok", body |-> body, ls |-> ls3, sent |-> <<req>>, net |-> net])))

\* `not client_id or not client_secret`
CredentialsMissing(creds) == ~Truthy(creds.client_id) \/ ~Truthy(creds.client_secret)

\* TokenManager.fetch_general_token
fetch_general_token(region, env, ls, net, t) ==
    IF <<region, env>> \notin DOMAIN PINGONE_TOKEN_URLS
    THEN Raised("endpoint_not_found", ls)
    ELSE Bind(get_credential_env_var(region, env, "general"), LAMBDA creds :
           IF CredentialsMissing(creds)
           THEN Raised("missing_credentials", ls)
           ELSE Bind(prepare_general_request(creds.client_id.s, creds.client_secret.s,
                                            PINGONE_TOKEN_URLS[<<region, env>>]), LAMBDA req :
                  PostAndLog("general", req, get_logger(ls, FALSE), net, t)))

\* TokenManager.fetch_clientops_token
fetch_clientops_token_CredentialsFirst(region, env, ls, net, t) ==
    Bind(get_credential_env_var(region, env, "clientops"), LAMBDA creds :
      IF CredentialsMissing(creds)
      THEN Raised("missing_credentials", ls)
      ELSE IF <<region, env>> \notin DOMAIN PINGONE_TOKEN_URLS
      THEN Raised("endpoint_not_found", ls)
      ELSE Bind(prepare_clientops_request(creds.client_id.s, creds.client_secret.s,
                                          PINGONE_TOKEN_URLS[<<region, env>>]), LAMBDA req :
             PostAndLog("clientops", req, get_logger(ls, FALSE), net, t)))

fetch_clientops_token(region, env, ls, net, t) ==
    IF <<region, env>> \notin DOMAIN PINGONE_TOKEN_URLS
    THEN Raised("endpoint_not_found", ls)
    ELSE Bind(get_credential_env_var(region, env, "clientops"), LAMBDA creds :
           IF CredentialsMissing(creds)
           THEN Raised("missing_credentials", ls)
           ELSE Bind(prepare_clientops_request(creds.client_id.s, creds.client_secret.s,
                                              PINGONE_TOKEN_URLS[<<region, env>>]), LAMBDA req :
                  PostAndLog("clientops", req, get_logger(ls, FALSE), net, t)))

\* int(x) for the values a JSON body can hold
RECURSIVE ParseDigits(_)
ParseDigits(text) ==
    IF text = <<>> THEN 0
    ELSE 10 * ParseDigits(SubSeq(text, 1, Len(text) - 1))
         + (IndexIn(text[Len(text)], DigitChars) - 1)

PyInt(v) ==
    CASE v.t = "n" -> [ok |-> TRUE, n |-> v.n]
      [] v.t = "s" /\ v.s # <<>> /\ (\A i \in 1..Len(v.s) : InTable(v.s[i], DigitChars))
            -> [ok |-> TRUE, n |-> ParseDigits(v.s)]
      [] OTHER -> [ok |-> FALSE, n |-> 0]

\* The kind normalisation at the head of get_token; "" stands for the raise
NormalizeKind_ClientIsGeneral(kind) ==
    IF kind \in {"general", "clientops"} THEN kind
    ELSE IF kind = "client" THEN "general" ELSE ""

NormalizeKind(kind) ==
    IF kind \in {"general", "clientops"} THEN kind
    ELSE IF kind = "client" THEN "clientops" ELSE ""

\* The cache test of get_token
CacheFresh_IgnoreForce(token_data, force_refresh, t) ==
    /\ token_data # PyNone
    /\ token_data.expires_at > t + MARGIN

CacheFresh_NoMargin(token_data, force_refresh, t) ==
    /\ ~force_refresh
    /\ token_data # PyNone
    /\ token_data.expires_at > t

CacheFresh_AtMargin(token_data, force_refresh, t) ==
    /\ ~force_refresh
    /\ token_data # PyNone
    /\ token_data.expires_at >= t + MARGIN

CacheFresh(token_data, force_refresh, t) ==
    /\ ~force_refresh
    /\ token_data # PyNone
    /\ token_data.expires_at > t + MARGIN

\* What a get_token call did: the outcome (why), the value returned, the
\* cache and the logger state after it, the requests posted and the answer
Outcome(why, ret, tk, f) ==
    [why |-> why, ret |-> ret, tokens |-> tk, ls |-> f.ls, sent |-> f.sent, net |-> f.net]

\* Lines 162-181 of get_token: read the body f.body of a fetch that returned
StoreToken(k, region, env, f, tk, t) ==
    LET isdict == f.body.t = "m"
        access_token == IF isdict THEN DictGet(f.body, "access_token") ELSE PyNone
        expires_in == IF isdict THEN DictGet(f.body, "expires_in") ELSE PyNone
    IN IF ~Truthy(access_token) THEN Outcome("malformed_response", PyNone, tk, f)
       ELSE Bind(PyInt(IF Truthy(expires_in) THEN expires_in ELSE N(DEFAULT_EXPIRES_IN)),
                 LAMBDA secs :
              IF ~secs.ok THEN Outcome("int_conversion_error", PyNone, tk, f)
              ELSE Bind(get_credential_env_var(region, env, k), LAMBDA creds :
                     Outcome("ok", access_token,
                             [tk EXCEPT ![k] = [access_token |-> access_token,
                                                expires_at |-> t + secs.n,
                                                client_id |-> creds.client_id,
                                                client_secret |-> creds.client_secret]],
                             f)))

\* get_token, except that a failed fetch empties the slot
get_token_ClearsOnFailure(kind, region, env, force_refresh, net, tk, ls, t) ==
    Bind(NormalizeKind(kind), LAMBDA k :
      IF k = "" THEN Outcome("unknown_kind", PyNone, tk, Raised("", ls))
      ELSE IF CacheFresh(tk[k], force_refresh, t)
      THEN Outcome("cache_hit", tk[k].access_token, tk, Raised("", ls))
      ELSE Bind(IF k = "general" THEN fetch_general_token(region, env, ls, net, t)
                ELSE fetch_clientops_token(region, env, ls, net, t), LAMBDA f :
             IF f.why # "ok" THEN Outcome(f.why, PyNone, [tk EXCEPT ![k] = PyNone], f)
             ELSE StoreToken(k, region, env, f, tk, t)))

\* TokenManager.get_token on the cache tk and the logger state ls at time t
get_token(kind, region, env, force_refresh, net, tk, ls, t) ==
    Bind(NormalizeKind(kind), LAMBDA k :
      IF k = "" THEN Outcome("unknown_kind", PyNone, tk, Raised("", ls))
      ELSE IF CacheFresh(tk[k], force_refresh, t)
      THEN Outcome("cache_hit", tk[k].access_token, tk, Raised("", ls))
      ELSE Bind(IF k = "general" THEN fetch_general_token(region, env, ls, net, t)
                ELSE fetch_clientops_token(region, env, ls, net, t), LAMBDA f :
             IF f.why # "ok" THEN Outcome(f.why, PyNone, tk, f)
             ELSE StoreToken(k, region, env, f, tk, t)))

\* TokenManager.get_token_info: self.tokens.get(kind)
get_token_info(tk, kind) == IF kind \in DOMAIN tk THEN tk[kind] ELSE PyNone

\* The characters of a kind
KindChars(kind) ==
    IF kind = "general" THEN <<"g","e","n","e","r","a","l">>
    ELSE <<"c","l","i","e","n","t","o","p","s">>

\* TokenManager.format_token_display: the lines of the text it returns
format_token_display(tk, kind) ==
    Bind(get_token_info(tk, kind), LAMBDA token_data :
      IF token_data = PyNone THEN << <<"No ">> \o KindChars(kind) \o <<" token cached.">> >>
      ELSE << Upper(KindChars(kind)) \o <<" Token:">>,
              <<"  Access Token: ">> \o token_data.access_token.s,
              <<"  Client ID: ">> \o token_data.client_id.s,
              <<"  Client Secret: ">> \o token_data.client_secret.s,
              <<"  Expires At: ", ToString(token_data.expires_at)>> >>)

\* TokenManager.clear_cache
clear_cache == [k \in {"general", "clientops"} |-> PyNone]

-----------------------------------------------------------------------------
(* ciam/http.py: APIClient; ciam/handlers/stores.py: get_store *)

R_eu == <<"e","u">>

\* The (region, env) keys of APIClient.BASE_URLS
BaseUrlKeys ==
    { <<r, e>> : r \in {R_us, R_uk, R_can, R_anz}, e \in {E_dev, E_qa, E_uat, E_prod} }

BASE_URLS ==
    [p \in BaseUrlKeys |->
        IF p[2] = E_prod
        THEN <<"https://ciam-">> \o p[1] \o <<".example.com/api/v1">>
        ELSE <<"https://ciam-">> \o p[1] \o <<"-">> \o p[2] \o <<".example.com/api/v1">>]

\* APIClient.__init__ on the logger state ls: the client object and the
\* logger state after get_logger(verbose); the client keeps the logger it got
APIClient(region, env, store_id, credential_type, verbose, ls) ==
    Bind(get_logger(ls, verbose), LAMBDA ls2 :
        [client |-> [region |-> region, env |-> env, store_id |-> store_id,
                     credential_type |-> credential_type, verbose |-> verbose,
                     logger |-> ls2.g_logger],
         ls |-> ls2])

\* APIClient._get_base_url; <<>> stands for the raise
get_base_url(c) ==
    IF <<c.region, c.env>> \in DOMAIN BASE_URLS THEN BASE_URLS[<<c.region, c.env>>] ELSE <<>>

\* APIClient._get_headers: the get_token call r it makes and, when that
\* returned, the headers built around the token
get_headers_StoreAlways(c, needs_store_header, tnet, tk, ls, t) ==
    Bind(get_token(IF c.credential_type # "client" THEN c.credential_type ELSE "clientops",
                   c.region, c.env, FALSE, tnet, tk, ls, t), LAMBDA r :
        IF r.why \notin {"ok", "cache_hit"}
        THEN [why |-> r.why, headers |-> PyNone, r |-> r]
        ELSE [why |-> "ok",
              headers |->
                M(IF Truthy(c.store_id)
                  THEN ("Authorization" :> S(<<"Bearer ">> \o r.ret.s))
                       @@ ("Content-Type" :> S(<<"application/json">>))
                       @@ ("X-Store-Id" :> c.store_id)
                  ELSE ("Authorization" :> S(<<"Bearer ">> \o r.ret.s))
                       @@ ("Content-Type" :> S(<<"application/json">>))),
              r |-> r])

get_headers(c, needs_store_header, tnet, tk, ls, t) ==
    Bind(get_token(IF c.credential_type # "client" THEN c.credential_type ELSE "clientops",
                   c.region, c.env, FALSE, tnet, tk, ls, t), LAMBDA r :
        IF r.why \notin {"ok", "cache_hit"}
        THEN [why |-> r.why, headers |-> PyNone, r |-> r]
        ELSE [why |-> "ok",
              headers |->
                M(IF needs_store_header /\ Truthy(c.store_id)
                  THEN ("Authorization" :> S(<<"Bearer ">> \o r.ret.s))
                       @@ ("Content-Type" :> S(<<"application/json">>))
                       @@ ("X-Store-Id" :> c.store_id)
                  ELSE ("Authorization" :> S(<<"Bearer ">> \o r.ret.s))
                       @@ ("Content-Type" :> S(<<"application/json">>))),
              r |-> r])

\* self.logger.log_entry(...): the logger object the client got at __init__
LogTo(ls, i, operation, request, response, error, t) ==
    Bind(ls, LAMBDA s :
        [s EXCEPT !.loggers[i] = log_entry(@, operation, request, response, error, t)])

\* response.raise_for_status() of requests: an HTTPError, which is a
\* RequestException, for 400 <= status < 600 and nothing otherwise
RaisesForStatus(status_code) == 400 <= status_code /\ status_code < 600

\* str(e) of that HTTPError
HTTPErrorText(net) ==
    <<ToString(net.status_code),
      IF net.status_code < 500 THEN " Client Error" ELSE " Server Error">>

\* What a client call did: the outcome, the value returned, the cache and
\* the logger state after it, the token requests and the business requests
\* sent, and the token get_token returned
ApiOutcome(why, ret, r, ls, sent) ==
    [why |-> why, ret |-> ret, tokens |-> r.tokens, ls |-> ls, tsent |-> r.sent,
     sent |-> sent, token |-> r.ret, twhy |-> r.why]

\* The part of _make_request after the headers are built: the HTTP call
\* answered by bnet, the log entries, and the verdict
SendAndLog_ErrorOnly(c, req, operation, h, bnet, t) ==
    Bind(M(("method" :> S(<<req.method>>)) @@ ("url" :> S(req.url))
           @@ ("headers" :> req.headers) @@ ("params" :> req.params)
           @@ ("body" :> req.json)), LAMBDA request_meta :
      IF bnet.k = "error"
      THEN ApiOutcome("transport_error", PyNone, h.r,
                      LogTo(h.r.ls, c.logger, operation, request_meta, PyNone, S(bnet.msg), t),
                      <<req>>)
      ELSE Bind(ResponseBody(bnet), LAMBDA body :
             IF RaisesForStatus(bnet.status_code)
             THEN ApiOutcome("http_error", PyNone, h.r,
                             LogTo(h.r.ls, c.logger, operation, request_meta, PyNone,
                                   S(HTTPErrorText(bnet)), t),
                             <<req>>)
             ELSE ApiOutcome("ok",
                             [success |-> TRUE, status_code |-> bnet.status_code,
                              data |-> body],
                             h.r,
                             LogTo(h.r.ls, c.logger, operation, request_meta,
                                   ResponseMeta(bnet, body), PyNone, t),
                             <<req>>)))

SendAndLog(c, req, operation, h, bnet, t) ==
    Bind(M(("method" :> S(<<req.method>>)) @@ ("url" :> S(req.url))
           @@ ("headers" :> req.headers) @@ ("params" :> req.params)
           @@ ("body" :> req.json)), LAMBDA request_meta :
      IF bnet.k = "error"
      THEN \* except requests.RequestException as e
           ApiOutcome("transport_error", PyNone, h.r,
                      LogTo(h.r.ls, c.logger, operation, request_meta, PyNone, S(bnet.msg), t),
                      <<req>>)
      ELSE Bind(ResponseBody(bnet), LAMBDA body :
             Bind(LogTo(h.r.ls, c.logger, operation, request_meta,
                        ResponseMeta(bnet, body), PyNone, t), LAMBDA ls2 :
               IF RaisesForStatus(bnet.status_code)
               THEN \* raise_for_status raised inside the try: logged again
                    ApiOutcome("http_error", PyNone, h.r,
                               LogTo(ls2, c.logger, operation, request_meta, PyNone,
                                     S(HTTPErrorText(bnet)), t),
                               <<req>>)
               ELSE ApiOutcome("ok",
                               [success |-> TRUE, status_code |-> bnet.status_code,
                                data |-> body],
                               h.r, ls2, <<req>>))))

\* APIClient._make_request; tnet answers the token endpoint and bnet the
\* API, when the call gets that far
make_request_TokenFirst(c, method, endpoint, needs_store_header, params, json_body, tnet, bnet, tk, ls, t) ==
    Bind(get_headers(c, needs_store_header, tnet, tk, ls, t), LAMBDA h :
      IF h.why # "ok" THEN ApiOutcome(h.why, PyNone, h.r, h.r.ls, <<>>)
      ELSE IF get_base_url(c) = <<>>
      THEN ApiOutcome("base_url_not_found", PyNone, h.r, h.r.ls, <<>>)
      ELSE SendAndLog(c, [method |-> method, url |-> get_base_url(c) \o endpoint,
                          headers |-> h.headers, params |-> params, json |-> json_body],
                      <<method, " ">> \o endpoint, h, bnet, t))

make_request(c, method, endpoint, needs_store_header, params, json_body, tnet, bnet, tk, ls, t) ==
    IF get_base_url(c) = <<>>
    THEN ApiOutcome("base_url_not_found", PyNone,
                    [tokens |-> tk, sent |-> <<>>, ret |-> PyNone, why |-> ""], ls, <<>>)
    ELSE Bind(get_headers(c, needs_store_header, tnet, tk, ls, t), LAMBDA h :
           IF h.why # "ok" THEN ApiOutcome(h.why, PyNone, h.r, h.r.ls, <<>>)
           ELSE SendAndLog(c, [method |-> method, url |-> get_base_url(c) \o endpoint,
                               headers |-> h.headers, params |-> params, json |-> json_body],
                           <<method, " ">> \o endpoint, h, bnet, t))

\* APIClient.get / post / put / patch / delete
get(c, endpoint, needs_store_header, params, tnet, bnet, tk, ls, t) ==
    make_request(c, "GET", endpoint, needs_store_header, params, PyNone, tnet, bnet, tk, ls, t)

post(c, endpoint, body, needs_store_header, params, tnet, bnet, tk, ls, t) ==
    make_request(c, "POST", endpoint, needs_store_header, params, body, tnet, bnet, tk, ls, t)

put(c, endpoint, body, needs_store_header, params, tnet, bnet, tk, ls, t) ==
    make_request(c, "PUT", endpoint, needs_store_header, params, body, tnet, bnet, tk, ls, t)

patch(c, endpoint, body, needs_store_header, params, tnet, bnet, tk, ls, t) ==
    make_request(c, "PATCH", endpoint, needs_store_header, params, body, tnet, bnet, tk, ls, t)

delete(c, endpoint, needs_store_header, params, tnet, bnet, tk, ls, t) ==
    make_request(c, "DELETE", endpoint, needs_store_header, params, PyNone, tnet, bnet, tk, ls, t)

\* handlers.stores.get_store for a list of one store id: the client call it
\* makes; an exception of the call is caught and reported in "errors"
get_store(c, store_id, tnet, bnet, tk, ls, t) ==
    get(c, <<"/stores/", store_id>>, FALSE, PyNone, tnet, bnet, tk, ls, t)

-----------------------------------------------------------------------------
(* ciam/handlers: the batched get handlers get_user, get_group, get_org,   *)
(* get_product and get_store                                               *)

\* str(e) of the exception a client call raised; the text of the failures
\* that come from the token manager is stood for by the name of the failure
ExceptionText(r, bnet) ==
    IF r.why = "transport_error" THEN bnet.msg
    ELSE IF r.why = "http_error" THEN HTTPErrorText(bnet)
    ELSE <<r.why>>

\* data.get("email", "N/A") and the like: an AttributeError unless data is a dict
HasGet(data) == data.t = "m"

\* The handler's state before the first id
BatchStart(tk, ls) ==
    [results |-> <<>>, errors |-> <<>>, per |-> <<>>, tokens |-> tk, ls |-> ls]

\* One turn of the loop "for x_id in x_ids": the client call answered by
\* a = <<tnet, bnet>>, then the lines of the try block and its except.  per
\* records, for the id, the client call and the lists the id was added to
BatchStep(c, label, prefix, needs_store_header, id, a, acc, t) ==
    Bind(get(c, <<prefix, id>>, needs_store_header, PyNone, a[1], a[2], acc.tokens, acc.ls, t),
         LAMBDA r :
      Bind([id |-> id, endpoint |-> <<prefix, id>>, why |-> r.why, tsent |-> r.tsent,
            sent |-> r.sent, twhy |-> r.twhy, tnet |-> a[1]], LAMBDA rec :
        IF r.why = "ok"
        THEN \* response.get("success") is True; results.append(data) comes
             \* before the summary line that reads data.get(...)
             IF HasGet(r.ret.data)
             THEN [results |-> Append(acc.results, r.ret.data), errors |-> acc.errors,
                   per |-> Append(acc.per, rec @@ [result |-> TRUE, error |-> FALSE]),
                   tokens |-> r.tokens, ls |-> r.ls]
             ELSE \* except Exception as e: errors.append(...)
                  [results |-> Append(acc.results, r.ret.data),
                   errors |-> Append(acc.errors, <<label, " ", id, ": ", "AttributeError">>),
                   per |-> Append(acc.per, rec @@ [result |-> TRUE, error |-> TRUE]),
                   tokens |-> r.tokens, ls |-> r.ls]
        ELSE [results |-> acc.results,
              errors |-> Append(acc.errors, <<label, " ", id, ": ">> \o ExceptionText(r, a[2])),
              per |-> Append(acc.per, rec @@ [result |-> FALSE, error |-> TRUE]),
              tokens |-> r.tokens, ls |-> r.ls]))

\* The loop over the ids; answers[i] answers the call for ids[i]
RECURSIVE BatchLoop(_, _, _, _, _, _, _, _)
BatchLoop(c, label, prefix, needs_store_header, ids, answers, acc, t) ==
    IF ids = <<>> THEN acc
    ELSE BatchLoop(c, label, prefix, needs_store_header, Tail(ids), Tail(answers),
                   BatchStep(c, label, prefix, needs_store_header, Head(ids), Head(answers),
                             acc, t),
                   t)

\* The dict a batched get handler returns, with the state it leaves
BatchResult(acc) ==
    [success |-> Len(acc.errors) = 0, results |-> acc.results, errors |-> acc.errors,
     per |-> acc.per, tokens |-> acc.tokens, ls |-> acc.ls]

get_user(c, user_ids, answers, tk, ls, t) ==
    BatchResult(BatchLoop(c, "User", "/users/", TRUE, user_ids, answers, BatchStart(tk, ls), t))

get_group(c, group_ids, answers, tk, ls, t) ==
    BatchResult(BatchLoop(c, "Group", "/groups/", TRUE, group_ids, answers, BatchStart(tk, ls), t))

get_org(c, org_ids, answers, tk, ls, t) ==
    BatchResult(BatchLoop(c, "Org", "/orgs/", TRUE, org_ids, answers, BatchStart(tk, ls), t))

get_product(c, product_ids, answers, tk, ls, t) ==
    BatchResult(BatchLoop(c, "Product", "/products/", TRUE, product_ids, answers,
                          BatchStart(tk, ls), t))

\* get_store on its whole list of ids
get_stores(c, store_ids, answers, tk, ls, t) ==
    BatchResult(BatchLoop(c, "Store", "/stores/", FALSE, store_ids, answers, BatchStart(tk, ls), t))

-----------------------------------------------------------------------------
(* ciam/config.py: ConfigManager *)

VALID_REGIONS == {R_us, R_uk, R_can, R_anz}
VALID_ENVS == {E_dev, E_qa, E_uat, E_prod}

\* The configuration of a missing or unreadable file
EmptyConfig == [region |-> PyNone, env |-> PyNone, store_id |-> PyNone]

\* ConfigManager._load_config on the file's document
load_config(file) == IF file \in {Absent, NotJson} THEN EmptyConfig ELSE file

\* ConfigManager._save_config: the file after json.dump(self.config)
save_config(cfg) == cfg

\* ConfigManager.set_config(region, env, store_id) on the configuration cfg
\* and the file: whether it raised ValueError, and what it left in both
set_config(cfg, file, region, env, store_id) ==
    IF region # PyNone /\ region.s \notin VALID_REGIONS
    THEN [raised |-> TRUE, config |-> cfg, file |-> file]
    ELSE Bind(IF region # PyNone THEN [cfg EXCEPT !.region = region] ELSE cfg, LAMBDA c1 :
           IF env # PyNone /\ env.s \notin VALID_ENVS
           THEN [raised |-> TRUE, config |-> c1, file |-> file]
           ELSE Bind(IF env # PyNone THEN [c1 EXCEPT !.env = env] ELSE c1, LAMBDA c2 :
                  Bind(IF store_id # PyNone THEN [c2 EXCEPT !.store_id = store_id] ELSE c2,
                       LAMBDA c3 :
                    [raised |-> FALSE, config |-> c3, file |-> save_config(c3)])))

-----------------------------------------------------------------------------
(* ciam/cli.py: the command handlers.  One invocation is one process: it   *)
(* starts with an empty token cache and no logger, and reads the           *)
(* configuration file                                                      *)

\* The logger state of a process that has just started
NoLoggers == [loggers |-> <<>>, g_logger |-> 0]

\* ConfigManager.validate_region_and_env: does it raise
RegionOrEnvMissing(cfg) == ~Truthy(cfg.region) \/ ~Truthy(cfg.env)

\* What an invocation leaves: how it ended, the configuration, the client,
\* the token cache and the logger state of the process, the files, and the
\* write_to_file calls it made with the path the last one returned
Ended(exit, cfg, c, tk, ls, fs, writes, path) ==
    [exit |-> exit, config |-> cfg, client |-> c, tokens |-> tk, ls |-> ls, files |-> fs,
     writes |-> writes, path |-> path]

\* handle_tokens with tokens_action "view"; nets[1] answers the general and
\* nets[2] the clientops token request
handle_tokens(nets, file, fs, t) ==
    Bind(load_config(file), LAMBDA cfg :
      IF RegionOrEnvMissing(cfg)
      THEN Ended("raised", cfg, PyNone, clear_cache, NoLoggers, fs, 0, PyNone)
      ELSE Bind(get_token("general", cfg.region.s, cfg.env.s, FALSE, nets[1], clear_cache,
                          NoLoggers, t), LAMBDA r1 :
             Bind(get_token("clientops", cfg.region.s, cfg.env.s, FALSE, nets[2], r1.tokens,
                            r1.ls, t), LAMBDA r2 :
               Ended("returned", cfg, PyNone, r2.tokens, r2.ls, fs, 0, PyNone))))

\* The batched get handler of a family of objects
FamilyGet(family, c, ids, answers, tk, ls, t) ==
    CASE family = "users" -> get_user(c, ids, answers, tk, ls, t)
      [] family = "groups" -> get_group(c, ids, answers, tk, ls, t)
      [] family = "orgs" -> get_org(c, ids, answers, tk, ls, t)
      [] family = "products" -> get_product(c, ids, answers, tk, ls, t)
      [] family = "stores" -> get_stores(c, ids, answers, tk, ls, t)

\* handle_users, handle_groups, handle_orgs, handle_stores and
\* handle_products with the action "get", or with one of the actions that
\* only print "Not supported at this time" (action "list")
HandleFamily(family, action, args_store_id, ids, answers, verbose, file, fs, t) ==
    Bind(load_config(file), LAMBDA cfg :
      IF RegionOrEnvMissing(cfg)
      THEN Ended("raised", cfg, PyNone, clear_cache, NoLoggers, fs, 0, PyNone)
      ELSE Bind(IF family = "stores" THEN PyNone
                ELSE IF Truthy(args_store_id) THEN args_store_id ELSE cfg.store_id,
                LAMBDA store_id :
        IF family # "stores" /\ ~Truthy(store_id)
        THEN Ended("exit", cfg, PyNone, clear_cache, NoLoggers, fs, 0, PyNone)
        ELSE Bind(APIClient(cfg.region.s, cfg.env.s, store_id, "general", verbose, NoLoggers),
                  LAMBDA n :
          Bind(IF action = "get"
               THEN FamilyGet(family, n.client, ids, answers, clear_cache, n.ls, t)
               ELSE [tokens |-> clear_cache, ls |-> n.ls], LAMBDA b :
            \* logger = get_logger(args.verbose); logger.write_to_file()
            Bind(get_logger(b.ls, verbose), LAMBDA ls3 :
              Bind(write_to_file(ls3.loggers[ls3.g_logger], fs, t), LAMBDA w :
                Ended("returned", cfg, n.client, b.tokens, ls3, w.files, 1, w.path)))))))

handle_users(action, args_store_id, ids, answers, verbose, file, fs, t) ==
    HandleFamily("users", action, args_store_id, ids, answers, verbose, file, fs, t)

handle_groups(action, args_store_id, ids, answers, verbose, file, fs, t) ==
    HandleFamily("groups", action, args_store_id, ids, answers, verbose, file, fs, t)

handle_orgs(action, args_store_id, ids, answers, verbose, file, fs, t) ==
    HandleFamily("orgs", action, args_store_id, ids, answers, verbose, file, fs, t)

handle_stores(action, args_store_id, ids, answers, verbose, file, fs, t) ==
    HandleFamily("stores", action, args_store_id, ids, answers, verbose, file, fs, t)

handle_products(action, args_store_id, ids, answers, verbose, file, fs, t) ==
    HandleFamily("products", action, args_store_id, ids, answers, verbose, file, fs, t)

\* handle_config with config_action "use" and both region and env given
handle_config(region, env, store_id, file) ==
    set_config(load_config(file), file, region, env, store_id)

-----------------------------------------------------------------------------
(* The state machine *)

MaxNow == 3300
MaxEntries == 2
MaxCacheNow == 6600
MaxCacheEntries == 4

TickSteps == {3299, 3300}
KindArgs == {"general", "clientops", "client", "admin"}
ArgPairs == { <<R_us, E_dev>>, <<R_us, E_qa>>, <<R_uk, E_dev>> }

\* The inputs of the specification that follows a cache slot over two fetches
CacheKindArgs == {"general", "clientops"}
CachePairs == { <<R_us, E_dev>>, <<R_uk, E_dev>> }
CacheNets ==
    { TransportError(<<"Connection refused">>),
      Response(401, ErrorBody, <<"{error}">>),
      Response(200, TokenBody(TokA, N(3600)), <<"{token}">>),
      Response(200, TokenBody(TokB, Absent), <<"{token}">>),
      Response(200, TokenBody(TokA, N(60)), <<"{token}">>) }

Idle(op) ==
    [op |-> op, kind |-> "", region |-> <<>>, env |-> <<>>, force_refresh |-> FALSE,
     why |-> "", ret |-> PyNone, sent |-> <<>>, net |-> NoNet]

TmInit ==
    /\ now = 0
    /\ tokens = clear_cache
    /\ loggers = <<>>
    /\ g_logger = 0
    /\ last = Idle("init")
    /\ issued = clear_cache

RedactIdle ==
    /\ rdata = PyNone
    /\ rverbose = FALSE
    /\ rout = Pending

\* time passes, up to maxNow
TickUpTo(maxNow) ==
    \E d \in TickSteps :
        /\ now + d <= maxNow
        /\ now' = now + d
        /\ last' = Idle("tick")
        /\ UNCHANGED <<tokens, loggers, g_logger, issued, redactVars, cfgVars, thrVars, apiVars>>

Tick == TickUpTo(MaxNow)

TickLong == TickUpTo(MaxCacheNow)

\* get_logger(verbose) called from outside the token manager
GetLogger ==
    \E verbose \in BOOLEAN :
        \E ls \in { get_logger([loggers |-> loggers, g_logger |-> g_logger], verbose) } :
           /\ loggers' = ls.loggers
           /\ g_logger' = ls.g_logger
           /\ last' = Idle("get_logger")
           /\ UNCHANGED <<now, tokens, issued, redactVars, cfgVars, thrVars, apiVars>>

\* token_manager.get_token(kind, region, env, force_refresh), with the
\* response of the token endpoint drawn from nets when the call reaches
\* requests.post; no logger holds more than maxEntries entries
GetTokenOver(kinds, pairs, nets, maxEntries) ==
    \E kind \in kinds, pair \in pairs, force_refresh \in BOOLEAN :
      \* the call as it goes when the POST, if any, fails: tells whether a
      \* POST is reached, and how long the log gets (two entries per POST)
      \E pre \in { get_token(kind, pair[1], pair[2], force_refresh, AnyNet, tokens,
                             [loggers |-> loggers, g_logger |-> g_logger], now) } :
        /\ \A i \in 1..Len(pre.ls.loggers) : Len(pre.ls.loggers[i].entries) <= maxEntries
        /\ \E net \in IF pre.sent = <<>> THEN {AnyNet} ELSE nets :
             \E r \in { IF net = AnyNet THEN pre
                        ELSE get_token(kind, pair[1], pair[2], force_refresh, net, tokens,
                                       [loggers |-> loggers, g_logger |-> g_logger], now) } :
               /\ \A i \in 1..Len(r.ls.loggers) : Len(r.ls.loggers[i].entries) <= maxEntries
               /\ tokens' = r.tokens
               /\ loggers' = r.ls.loggers
               /\ g_logger' = r.ls.g_logger
               /\ last' = [op |-> "get_token", kind |-> kind, region |-> pair[1],
                           env |-> pair[2], force_refresh |-> force_refresh,
                           why |-> r.why, ret |-> r.ret, sent |-> r.sent, net |-> r.net]
               /\ issued' = IF r.why = "ok"
                            THEN [issued EXCEPT ![NormalizeKind(kind)] =
                                    [at |-> now,
                                     expires_in |-> DictGet(r.net.json, "expires_in"),
                                     region |-> pair[1], env |-> pair[2]]]
                            ELSE issued
               /\ UNCHANGED <<now, redactVars, cfgVars, thrVars, apiVars>>

GetToken == GetTokenOver(KindArgs, ArgPairs, Nets, MaxEntries)

GetTokenAgain == GetTokenOver(CacheKindArgs, CachePairs, CacheNets, MaxCacheEntries)

ClearCache_KeepsClientops ==
    /\ tokens' = [tokens EXCEPT !["general"] = PyNone]
    /\ issued' = [issued EXCEPT !["general"] = PyNone]
    /\ last' = Idle("clear_cache") @@ [held |-> tokens]
    /\ UNCHANGED <<now, loggers, g_logger, redactVars, cfgVars, thrVars, apiVars>>

\* token_manager.clear_cache(); held is what the slots held before it
ClearCache ==
    /\ tokens' = clear_cache
    /\ issued' = clear_cache
    /\ last' = Idle("clear_cache") @@ [held |-> tokens]
    /\ UNCHANGED <<now, loggers, g_logger, redactVars, cfgVars, thrVars, apiVars>>

\* The answers of the token endpoint to the calls that a slot is followed
\* through: those of CacheNets, a body without access_token and an
\* expires_in that int() rejects
SlotNets ==
    CacheNets \cup { Response(200, ErrorBody, <<"{error}">>),
                     Response(200, TokenBody(TokA, S(<<"s","o","o","n">>)), <<"{token}">>) }

GetTokenSlot == GetTokenOver(CacheKindArgs, CachePairs, SlotNets, MaxCacheEntries)

\* token_manager.get_token_info(kind)
GetTokenInfo ==
    \E kind \in CacheKindArgs :
        /\ last' = [Idle("get_token_info") EXCEPT !.kind = kind,
                                                  !.ret = get_token_info(tokens, kind)]
        /\ UNCHANGED <<now, tokens, loggers, g_logger, issued, redactVars, cfgVars, thrVars, apiVars>>

\* token_manager.format_token_display(kind)
FormatTokenDisplay ==
    \E kind \in CacheKindArgs :
        /\ last' = [Idle("format_token_display") EXCEPT
                      !.kind = kind, !.ret = L(format_token_display(tokens, kind))]
        /\ UNCHANGED <<now, tokens, loggers, g_logger, issued, redactVars, cfgVars, thrVars, apiVars>>

\* No call yet
NoCall == [op |-> "none"]

ApiIdle ==
    /\ client = PyNone
    /\ files = <<>>
    /\ logged = <<>>
    /\ call = NoCall

\* How many entries logger i was given since it was constructed
LoggedCount(i) == IF i \in DOMAIN logged THEN logged[i] ELSE 0

\* logged after log entries were given to the loggers of ls
Counted(ls_loggers) ==
    [i \in 1..Len(ls_loggers) |->
        LoggedCount(i) + Len(ls_loggers[i].entries)
          - (IF i \in DOMAIN loggers THEN Len(loggers[i].entries) ELSE 0)]

MaxLoggers == 2
MaxLogEntries == 2

\* The (request, response, error) arguments of the direct log_entry calls
LogArgs ==
    { <<M(("method" :> S(<<"GET">>))
          @@ ("headers" :> M(("Authorization" :> S(<<"Bearer ", "tokA">>))
                             @@ ("X-Store-Id" :> S(<<"s1">>))))),
        M(("status_code" :> N(200))
          @@ ("body" :> L(<<M(("name" :> S(<<"n">>)) @@ ("apiKey" :> S(<<"k">>)))>>))),
        PyNone>>,
      <<M(("method" :> S(<<"GET">>)) @@ ("params" :> PyNone)), PyNone, S(<<"boom">>)>>,
      <<M(EmptyMap), PyNone, S(<<>>)>>,
      <<PyNone, PyNone, PyNone>> }

\* get_logger(verbose) by a caller, with at most MaxLoggers objects alive
LogGetLogger ==
    /\ g_logger # 0 \/ Len(loggers) < MaxLoggers
    /\ \E verbose \in BOOLEAN :
        \E ls \in { get_logger([loggers |-> loggers, g_logger |-> g_logger], verbose) } :
           /\ loggers' = ls.loggers
           /\ g_logger' = ls.g_logger
           /\ call' = [op |-> "get_logger", verbose |-> verbose, logger |-> ls.g_logger]
           /\ UNCHANGED <<now, tokens, last, issued, redactVars, cfgVars, thrVars, client, files, logged>>

\* reset_logger()
ResetLogger ==
    /\ g_logger # 0
    /\ g_logger' = reset_logger([loggers |-> loggers, g_logger |-> g_logger]).g_logger
    /\ call' = [op |-> "reset_logger"]
    /\ UNCHANGED <<now, tokens, loggers, last, issued, redactVars, cfgVars, thrVars, client, files, logged>>

\* logger.log_entry(operation, request, response, error) on any logger
\* object a caller still holds
LogEntry ==
    \E i \in 1..Len(loggers), a \in LogArgs :
        /\ LoggedCount(i) < MaxLogEntries
        /\ loggers' = [loggers EXCEPT ![i] = log_entry(@, <<"GET /users">>, a[1], a[2], a[3], now)]
        /\ logged' = Counted(loggers')
        /\ call' = [op |-> "log_entry", logger |-> i, request |-> a[1],
                    response |-> a[2], error |-> a[3]]
        /\ UNCHANGED <<now, tokens, g_logger, last, issued, redactVars, cfgVars, thrVars, client, files>>

\* logger.write_to_file()
WriteToFile ==
    \E i \in 1..Len(loggers) :
        \E w \in { write_to_file(loggers[i], files, now) } :
            /\ files' = w.files
            /\ call' = [op |-> "write_to_file", logger |-> i, path |-> w.path]
            /\ UNCHANGED <<now, tokens, loggers, g_logger, last, issued, redactVars, cfgVars, thrVars,
                           client, logged>>

\* logger.clear()
Clear ==
    \E i \in 1..Len(loggers) :
        /\ loggers' = [loggers EXCEPT ![i] = clear(@)]
        /\ call' = [op |-> "clear", logger |-> i]
        /\ UNCHANGED <<now, tokens, g_logger, last, issued, redactVars, cfgVars, thrVars, client, files, logged>>

MaxApiEntries == 4

ApiPairs == { <<R_us, E_dev>>, <<R_uk, E_dev>>, <<R_eu, E_dev>> }
Verbs == {"GET", "POST", "PUT", "PATCH", "DELETE"}

\* The constructor arguments (region, env, store_id, credential_type, verbose)
ClientArgs ==
    { <<R_us, E_dev, S(<<"s1">>), "general", FALSE>>,
      <<R_us, E_dev, PyNone, "client", TRUE>>,
      <<R_us, E_dev, S(<<>>), "general", TRUE>>,
      <<R_eu, E_dev, S(<<"s1">>), "general", FALSE>>,
      <<R_uk, E_dev, S(<<"s1">>), "client", FALSE>> }

\* The answers of the token endpoint and of the API to a client call
ApiTokenNets ==
    { TransportError(<<"Connection refused">>),
      Response(401, ErrorBody, <<"{error}">>),
      Response(200, NotJson, <<"<html>">>),
      Response(200, TokenBody(TokA, N(3600)), <<"{token}">>) }

ApiNets ==
    { TransportError(<<"Read timed out">>),
      Response(200, M(("name" :> S(<<"n">>)) @@ ("apiKey" :> S(<<"k">>))), <<"{user}">>),
      Response(204, NotJson, <<>>),
      Response(200, NotJson, <<"<html>">>),
      Response(304, NotJson, <<>>),
      Response(404, ErrorBody, <<"{error}">>),
      Response(500, NotJson, <<"oops">>) }

VerbNets ==
    { Response(200, M(("name" :> S(<<"n">>)) @@ ("apiKey" :> S(<<"k">>))), <<"{user}">>),
      Response(404, ErrorBody, <<"{error}">>) }

\* The JSON body of a post / put / patch
JsonBody == M(("name" :> S(<<"n">>)) @@ ("PASSWORD" :> S(<<"pw">>)))

\* APIClient(region, env, store_id, credential_type, verbose)
NewClient ==
    /\ client = PyNone
    /\ g_logger # 0 \/ Len(loggers) < MaxLoggers
    /\ \E a \in ClientArgs :
        \E n \in { APIClient(a[1], a[2], a[3], a[4], a[5],
                             [loggers |-> loggers, g_logger |-> g_logger]) } :
           /\ client' = n.client
           /\ loggers' = n.ls.loggers
           /\ g_logger' = n.ls.g_logger
           /\ call' = [op |-> "new_client"]
           /\ UNCHANGED <<now, tokens, last, issued, redactVars, cfgVars, thrVars, files, logged>>

\* client.region, client.env = ... : the attributes are plain and public
SetPair ==
    /\ client # PyNone
    /\ \E pair \in ApiPairs :
         /\ pair # <<client.region, client.env>>
         /\ client' = [client EXCEPT !.region = pair[1], !.env = pair[2]]
         /\ call' = [op |-> "set_pair"]
         /\ UNCHANGED <<tmVars, redactVars, cfgVars, thrVars, files, logged>>

\* The number of entries the loggers of a logger state hold together
RECURSIVE TotalEntries(_)
TotalEntries(ls_loggers) ==
    IF ls_loggers = <<>> THEN 0
    ELSE Len(Head(ls_loggers).entries) + TotalEntries(Tail(ls_loggers))

\* What a client call leaves behind: r is its ApiOutcome
Called(via, method, needs_store_header, tnet, bnet, r) ==
    /\ Len(r.ls.loggers) <= MaxLoggers
    /\ TotalEntries(r.ls.loggers) <= MaxApiEntries
    /\ tokens' = r.tokens
    /\ loggers' = r.ls.loggers
    /\ g_logger' = r.ls.g_logger
    /\ logged' = Counted(r.ls.loggers)
    /\ issued' = IF r.twhy = "ok"
                 THEN [issued EXCEPT ![IF client.credential_type = "general"
                                        THEN "general" ELSE "clientops"] =
                         [at |-> now, expires_in |-> DictGet(tnet.json, "expires_in"),
                          region |-> client.region, env |-> client.env]]
                 ELSE issued
    /\ last' = Idle("request")
    /\ call' = [op |-> "request", via |-> via, method |-> method,
                needs_store_header |-> needs_store_header,
                why |-> r.why, ret |-> r.ret, sent |-> r.sent, tsent |-> r.tsent,
                token |-> r.token, twhy |-> r.twhy,
                tnet |-> IF r.tsent = <<>> THEN NoNet ELSE tnet,
                bnet |-> IF r.sent = <<>> THEN NoNet ELSE bnet]
    /\ UNCHANGED <<now, redactVars, cfgVars, thrVars, client, files>>

\* client.<verb>("/users", ...) answered by tnet and bnet
VerbCall(method, needs, tnet, bnet) ==
    LET ls == [loggers |-> loggers, g_logger |-> g_logger]
    IN CASE method = "GET" ->
              get(client, <<"/users">>, needs, PyNone, tnet, bnet, tokens, ls, now)
         [] method = "POST" ->
              post(client, <<"/users">>, JsonBody, needs, PyNone, tnet, bnet, tokens, ls, now)
         [] method = "PUT" ->
              put(client, <<"/users">>, JsonBody, needs, PyNone, tnet, bnet, tokens, ls, now)
         [] method = "PATCH" ->
              patch(client, <<"/users">>, JsonBody, needs, PyNone, tnet, bnet, tokens, ls, now)
         [] method = "DELETE" ->
              delete(client, <<"/users">>, needs, PyNone, tnet, bnet, tokens, ls, now)

\* client.get / post / put / patch / delete("/users", ...): get with every
\* answer of the API, the other verbs with a success and a failure.  An
\* answer is drawn only for an HTTP call the client call comes to make
RequestOver(verbs, needsArgs) ==
    /\ client # PyNone
    /\ \E method \in verbs, needs \in needsArgs :
        \E pre \in { VerbCall(method, needs, AnyNet, AnyNet) } :
          /\ TotalEntries(pre.ls.loggers) <= MaxApiEntries
          /\ \E tnet \in IF pre.tsent = <<>> THEN {AnyNet} ELSE ApiTokenNets :
              \E mid \in { IF pre.tsent = <<>> THEN pre
                            ELSE VerbCall(method, needs, tnet, AnyNet) } :
                /\ TotalEntries(mid.ls.loggers) <= MaxApiEntries
                /\ \E bnet \in IF mid.sent = <<>> THEN {AnyNet}
                                ELSE IF method = "GET" THEN ApiNets ELSE VerbNets :
                    \E r \in { IF mid.sent = <<>> THEN mid
                                ELSE VerbCall(method, needs, tnet, bnet) } :
                      Called("verb", method, needs, tnet, bnet, r)

Request == RequestOver(Verbs, BOOLEAN)

\* client.get("/users") while loggers are created and reset around it
SharedRequest == RequestOver({"GET"}, {TRUE})

\* stores.get_store(client, [store_id])
GetStore ==
    /\ client # PyNone
    /\ \E pre \in { get_store(client, "s9", AnyNet, AnyNet, tokens,
                                [loggers |-> loggers, g_logger |-> g_logger], now) } :
        /\ TotalEntries(pre.ls.loggers) <= MaxApiEntries
        /\ \E tnet \in IF pre.tsent = <<>> THEN {AnyNet} ELSE ApiTokenNets,
              bnet \in VerbNets :
            \E r \in { get_store(client, "s9", tnet, bnet, tokens,
                                  [loggers |-> loggers, g_logger |-> g_logger], now) } :
               Called("get_store", "GET", FALSE, tnet, bnet, r)

\* A batch starts while the loggers hold fewer than MaxBatchStart entries
MaxBatchStart == 1

\* The lists of ids given to a batched get handler, and the answers of the
\* token endpoint and of the API to the call made for one id
BatchHandlers == {"get_user", "get_group", "get_org", "get_product", "get_store"}
BatchIds == { <<"i1">>, <<"i1", "i2">> }
BatchTokenNets ==
    { Response(401, ErrorBody, <<"{error}">>),
      Response(200, TokenBody(TokA, N(3600)), <<"{token}">>) }
BatchNets ==
    { TransportError(<<"Read timed out">>),
      Response(200, M(("name" :> S(<<"n">>)) @@ ("apiKey" :> S(<<"k">>))), <<"{user}">>),
      Response(200, NotJson, <<"<html>">>),
      Response(200, L(<<>>), <<"[]">>),
      Response(404, ErrorBody, <<"{error}">>) }

\* handler(client, ids) with the answers drawn for its calls
BatchCall(handler, ids, answers) ==
    LET ls == [loggers |-> loggers, g_logger |-> g_logger]
    IN CASE handler = "get_user" -> get_user(client, ids, answers, tokens, ls, now)
         [] handler = "get_group" -> get_group(client, ids, answers, tokens, ls, now)
         [] handler = "get_org" -> get_org(client, ids, answers, tokens, ls, now)
         [] handler = "get_product" -> get_product(client, ids, answers, tokens, ls, now)
         [] handler = "get_store" -> get_stores(client, ids, answers, tokens, ls, now)

\* The slot's history after the fetches recorded in per
RECURSIVE IssuedAfter(_, _, _)
IssuedAfter(iss, k, per) ==
    IF per = <<>> THEN iss
    ELSE IssuedAfter(IF Head(per).twhy = "ok"
                     THEN [iss EXCEPT ![k] =
                             [at |-> now,
                              expires_in |-> DictGet(Head(per).tnet.json, "expires_in"),
                              region |-> client.region, env |-> client.env]]
                     ELSE iss,
                     k, Tail(per))

\* users.get_user(client, ids) and its four siblings
GetBatch ==
    /\ client # PyNone
    /\ TotalEntries(loggers) < MaxBatchStart
    /\ \E handler \in BatchHandlers, ids \in BatchIds :
        \E answers \in [1..Len(ids) -> BatchTokenNets \X BatchNets] :
          \E b \in { BatchCall(handler, ids, answers) } :
            /\ tokens' = b.tokens
            /\ loggers' = b.ls.loggers
            /\ g_logger' = b.ls.g_logger
            /\ logged' = Counted(b.ls.loggers)
            /\ issued' = IssuedAfter(issued, IF client.credential_type = "general"
                                              THEN "general" ELSE "clientops", b.per)
            /\ last' = Idle("batch")
            /\ call' = [op |-> "batch", handler |-> handler, ids |-> ids,
                        success |-> b.success, results |-> b.results,
                        errors |-> b.errors, per |-> b.per]
            /\ UNCHANGED <<now, redactVars, cfgVars, thrVars, client, files>>

\* No ConfigManager yet and no configuration file
CfgIdle ==
    /\ config = PyNone
    /\ config_file = Absent

\* No get_token call in progress
ThrIdle == threads = <<>>

\* The arguments of set_config: None, valid values and an invalid one
RegionArgs == {PyNone, S(R_us), S(R_uk), S(R_eu)}
EnvArgs == {PyNone, S(E_dev), S(E_qa), S(<<"t","e","s","t">>)}
StoreIdArgs == {PyNone, S(<<"s1">>), S(<<"s2">>)}

\* ConfigManager(): the configuration is read from the file
NewConfigManager ==
    /\ config' = load_config(config_file)
    /\ call' = [op |-> "new_config"]
    /\ UNCHANGED <<tmVars, redactVars, thrVars, client, files, logged, config_file>>

\* config.set_config(region, env, store_id)
SetConfig ==
    /\ config # PyNone
    /\ \E region \in RegionArgs, env \in EnvArgs, store_id \in StoreIdArgs :
        \E r \in { set_config(config, config_file, region, env, store_id) } :
          /\ config' = r.config
          /\ config_file' = r.file
          /\ call' = [op |-> "set_config", region |-> region, env |-> env,
                      store_id |-> store_id, raised |-> r.raised]
          /\ UNCHANGED <<tmVars, redactVars, thrVars, client, files, logged>>

MaxThreads == 2

\* The answers of the token endpoint to the threads' requests
ThreadNets ==
    { Response(401, ErrorBody, <<"{error}">>),
      Response(200, TokenBody(TokA, N(3600)), <<"{token}">>),
      Response(200, TokenBody(TokB, N(3600)), <<"{token}">>) }

\* The threads whose get_token call has not returned or raised yet
Running == { i \in 1..Len(threads) : threads[i].pc # "done" }

\* A thread calls token_manager.get_token(kind, "us", "dev") on the shared
\* token manager: the kind is normalised (lines 145-149) and the thread is
\* about to read the cache; overlaps are the calls in progress at that time
ThreadCall ==
    /\ Len(threads) < MaxThreads
    /\ \E kind \in CacheKindArgs :
        threads' = Append(threads,
                          [pc |-> "check", kind |-> NormalizeKind(kind), region |-> R_us,
                           env |-> E_dev, overlaps |-> Running, posts |-> 0,
                           body |-> PyNone, net |-> NoNet, why |-> "", ret |-> PyNone])
    /\ last' = Idle("thread_call")
    /\ UNCHANGED <<now, tokens, loggers, g_logger, issued, redactVars, cfgVars, apiVars>>

\* Lines 151-154: the cache test, and the return of the cached token
ThreadCheck ==
    \E i \in 1..Len(threads) :
        /\ threads[i].pc = "check"
        /\ threads' =
             IF CacheFresh(tokens[threads[i].kind], FALSE, now)
             THEN [threads EXCEPT ![i].pc = "done", ![i].why = "cache_hit",
                                  ![i].ret = tokens[threads[i].kind].access_token]
             ELSE [threads EXCEPT ![i].pc = "fetch"]
        /\ last' = Idle("thread_check")
        /\ UNCHANGED <<now, tokens, loggers, g_logger, issued, redactVars, cfgVars, apiVars>>

\* Lines 157-160: fetch_general_token or fetch_clientops_token, answered by net
ThreadFetch ==
    \E i \in 1..Len(threads), net \in ThreadNets :
        /\ threads[i].pc = "fetch"
        /\ \E f \in { IF threads[i].kind = "general"
                      THEN fetch_general_token(threads[i].region, threads[i].env,
                                               [loggers |-> loggers, g_logger |-> g_logger],
                                               net, now)
                      ELSE fetch_clientops_token(threads[i].region, threads[i].env,
                                                 [loggers |-> loggers, g_logger |-> g_logger],
                                                 net, now) } :
             /\ loggers' = f.ls.loggers
             /\ g_logger' = f.ls.g_logger
             /\ threads' =
                  IF f.why # "ok"
                  THEN [threads EXCEPT ![i].pc = "done", ![i].why = f.why,
                                       ![i].posts = Len(f.sent), ![i].net = f.net]
                  ELSE [threads EXCEPT ![i].pc = "store", ![i].body = f.body,
                                       ![i].posts = Len(f.sent), ![i].net = f.net]
        /\ last' = Idle("thread_fetch")
        /\ UNCHANGED <<now, tokens, issued, redactVars, cfgVars, apiVars>>

\* Lines 162-181: read the body, store the token in the slot, return it
ThreadStore ==
    \E i \in 1..Len(threads) :
        /\ threads[i].pc = "store"
        /\ \E r \in { StoreToken(threads[i].kind, threads[i].region, threads[i].env,
                                 [body |-> threads[i].body, sent |-> <<>>,
                                  net |-> threads[i].net,
                                  ls |-> [loggers |-> loggers, g_logger |-> g_logger]],
                                 tokens, now) } :
             /\ tokens' = r.tokens
             /\ threads' = [threads EXCEPT ![i].pc = "done", ![i].why = r.why,
                                           ![i].ret = r.ret]
             /\ issued' = IF r.why = "ok"
                          THEN [issued EXCEPT ![threads[i].kind] =
                                  [at |-> now,
                                   expires_in |-> DictGet(threads[i].net.json, "expires_in"),
                                   region |-> threads[i].region, env |-> threads[i].env]]
                          ELSE issued
        /\ last' = Idle("thread_store")
        /\ UNCHANGED <<now, loggers, g_logger, redactVars, cfgVars, apiVars>>

\* The audit files after which no further command is run
MaxCliFiles == 1

\* The arguments of "config use", the lists of ids and the answers of the
\* API to the calls of a command
CliConfigArgs ==
    { <<S(R_us), S(E_dev), S(<<"s1">>)>>, <<S(R_us), S(E_dev), PyNone>>,
      <<S(R_uk), S(E_dev), S(<<"s1">>)>> }
CliFamilies == {"users", "groups", "orgs", "stores", "products"}
CliActions == {"get", "list"}
CliNets ==
    { TransportError(<<"Read timed out">>),
      Response(200, M(("name" :> S(<<"n">>)) @@ ("apiKey" :> S(<<"k">>))), <<"{user}">>),
      Response(404, ErrorBody, <<"{error}">>) }

\* What the process of an invocation r leaves behind
CommandDone(command, action, r) ==
    /\ config' = r.config
    /\ client' = r.client
    /\ tokens' = r.tokens
    /\ loggers' = r.ls.loggers
    /\ g_logger' = r.ls.g_logger
    /\ files' = r.files
    /\ logged' = [i \in 1..Len(r.ls.loggers) |-> Len(r.ls.loggers[i].entries)]
    /\ issued' = [k \in {"general", "clientops"} |->
                    IF r.tokens[k] = PyNone THEN PyNone
                    ELSE [at |-> now, expires_in |-> N(r.tokens[k].expires_at - now),
                          region |-> r.config.region.s, env |-> r.config.env.s]]
    /\ last' = Idle("command")
    /\ call' = [op |-> "command", command |-> command, action |-> action, exit |-> r.exit,
                logged |-> TotalEntries(r.ls.loggers), writes |-> r.writes,
                path |-> r.path]
    /\ UNCHANGED <<now, redactVars, thrVars>>

\* ciam.py config use --region .. --env .. [--store-id ..]
ConfigUse ==
    /\ Cardinality(DOMAIN files) < MaxCliFiles
    /\ \E a \in CliConfigArgs :
        \E r \in { handle_config(a[1], a[2], a[3], config_file) } :
            /\ config_file' = r.file
            /\ CommandDone("config", "use",
                   Ended(IF r.raised THEN "exit" ELSE "returned", r.config, PyNone,
                         clear_cache, NoLoggers, files, 0, PyNone))

\* ciam.py tokens view
TokensView ==
    /\ Cardinality(DOMAIN files) < MaxCliFiles
    /\ UNCHANGED config_file
    /\ \E nets \in [1..2 -> BatchTokenNets] :
        \E r \in { handle_tokens(nets, config_file, files, now) } :
            CommandDone("tokens", "view", r)

\* ciam.py users|groups|orgs|stores|products get|list ...
FamilyCommand ==
  /\ Cardinality(DOMAIN files) < MaxCliFiles
  /\ UNCHANGED config_file
  /\ \E family \in CliFamilies, action \in CliActions, verbose \in BOOLEAN,
       args_store_id \in {PyNone, S(<<"s2">>)} :
      \E ids \in IF action = "get" THEN BatchIds ELSE {<<>>} :
        \E answers \in [1..Len(ids) -> BatchTokenNets \X CliNets] :
          \E r \in { CASE family = "users" ->
                            handle_users(action, args_store_id, ids, answers, verbose,
                                         config_file, files, now)
                       [] family = "groups" ->
                            handle_groups(action, args_store_id, ids, answers, verbose,
                                          config_file, files, now)
                       [] family = "orgs" ->
                            handle_orgs(action, args_store_id, ids, answers, verbose,
                                        config_file, files, now)
                       [] family = "stores" ->
                            handle_stores(action, args_store_id, ids, answers, verbose,
                                          config_file, files, now)
                       [] family = "products" ->
                            handle_products(action, args_store_id, ids, answers, verbose,
                                            config_file, files, now) } :
            CommandDone(family, action, r)

Init == TmInit /\ RedactIdle /\ ApiIdle /\ CfgIdle /\ ThrIdle

\* Every input of get_token, with one logged fetch per logger
Next == Tick \/ GetLogger \/ GetToken \/ ClearCache

Spec == Init /\ [][Next]_vars

\* A cache slot followed over two fetches
CacheNext == TickLong \/ GetTokenAgain \/ ClearCache

SpecCache == Init /\ [][CacheNext]_vars

\* A cache slot under every operation of the token manager
SlotNext == TickLong \/ GetTokenSlot \/ ClearCache \/ GetTokenInfo \/ FormatTokenDisplay

SpecSlots == Init /\ [][SlotNext]_vars

\* The audit logger used directly: log, flush, clear, reset
LogNext == LogGetLogger \/ ResetLogger \/ LogEntry \/ WriteToFile \/ Clear

SpecLog == Init /\ [][LogNext]_vars

\* The API client over the token manager and the audit logger
ApiNext == NewClient \/ SetPair \/ Request \/ GetStore

SpecApi == Init /\ [][ApiNext]_vars

\* The API client while callers create and reset the process-wide logger
SharedNext == LogGetLogger \/ ResetLogger \/ NewClient \/ SharedRequest

SpecShared == Init /\ [][SharedNext]_vars

\* The batched get handlers over the API client
BatchNext == NewClient \/ GetBatch

SpecBatch == Init /\ [][BatchNext]_vars

\* get_token calls of several threads on the shared token manager
ThreadNext == ThreadCall \/ ThreadCheck \/ ThreadFetch \/ ThreadStore

SpecThreads == Init /\ [][ThreadNext]_vars

\* The commands of the command line, one process each
CliNext == ConfigUse \/ TokensView \/ FamilyCommand

SpecCli == Init /\ [][CliNext]_vars

\* The configuration manager
CfgNext == NewConfigManager \/ SetConfig

SpecCfg == Init /\ [][CfgNext]_vars

\* redact_secrets applied to every input
RInit == RedactInit /\ TmInit /\ ApiIdle /\ CfgIdle /\ ThrIdle

RNext == RedactCall /\ UNCHANGED <<tmVars, apiVars, cfgVars, thrVars>>

SpecRedact == RInit /\ [][RNext]_vars

-----------------------------------------------------------------------------
(* The claims.  A step of get_token is a step that leaves last.op =        *)
(* "get_token"; last holds the call's arguments and what came of it.       *)

ValidKinds == {"general", "clientops", "client"}

\* The cache slot a valid kind names
SlotOf(kind) == IF kind = "general" THEN "general" ELSE "clientops"

\* The entries of the global logger
GlobalEntries == IF g_logger = 0 THEN <<>> ELSE loggers[g_logger].entries

\* The outcomes of a call that took the fetch path
FetchOutcomes ==
    {"endpoint_not_found", "missing_credentials", "fetch_failed_transport",
     "fetch_failed_status", "malformed_response", "int_conversion_error", "ok"}

\* C1: with force_refresh false, a token received at time T with expires_in
\* 3600 is returned from the cache, without a fetch, by every call for its
\* kind at a time < T + 3300, and every call at a time >= T + 3300 refetches.
C1_ReuseWindow ==
    [][\A k \in {"general", "clientops"} :
        ( /\ last'.op = "get_token"
          /\ last'.kind \in ValidKinds
          /\ SlotOf(last'.kind) = k
          /\ ~last'.force_refresh
          /\ issued[k] # PyNone
          /\ issued[k].expires_in = N(3600) )
        => IF now < issued[k].at + 3300
           THEN /\ last'.why = "cache_hit"
                /\ last'.ret = tokens[k].access_token
                /\ last'.sent = <<>>
                /\ tokens' = tokens
           ELSE /\ last'.why \in FetchOutcomes
                /\ (<<last'.region, last'.env>> = <<R_us, E_dev>> => Len(last'.sent) = 1)
      ]_vars

\* A call one second inside the window was served from the cache
C1_Witness ==
    \E k \in {"general", "clientops"} :
        /\ last.op = "get_token"
        /\ SlotOf(last.kind) = k
        /\ last.why = "cache_hit"
        /\ issued[k] # PyNone
        /\ issued[k].expires_in = N(3600)
        /\ issued[k].at > 0
        /\ now = issued[k].at + 3299

\* C2: every get_token call (of a valid kind) whose (region, env) has no
\* entry in the token-endpoint table fails with the endpoint-not-found
\* error, posts nothing and returns no token, whatever the cache holds.
C2_UnresolvableAlwaysFails ==
    ( /\ last.op = "get_token"
      /\ last.kind \in ValidKinds
      /\ <<last.region, last.env>> \notin TokenUrlKeys )
    => /\ last.why = "endpoint_not_found"
       /\ last.sent = <<>>
       /\ last.ret = PyNone


\* Both credentials of a slot are set in the environment for (region, env)
CredentialsPresent(region, env, slot) ==
    /\ Truthy(get_credential_env_var(region, env, slot).client_id)
    /\ Truthy(get_credential_env_var(region, env, slot).client_secret)

\* C3: with a resolvable endpoint and present credentials, one get_token
\* call posts nothing when it is a cache hit and posts exactly once when the
\* slot is empty, force_refresh is set, or the cached expiry is within 5
\* minutes of now; a failed fetch reaches the caller and is not retried.
C3_RequestCount ==
    [][( /\ last'.op = "get_token"
         /\ last'.kind \in ValidKinds
         /\ <<last'.region, last'.env>> \in TokenUrlKeys
         /\ CredentialsPresent(last'.region, last'.env, SlotOf(last'.kind)) )
       => LET k == SlotOf(last'.kind)
              usable == tokens[k] # PyNone /\ tokens[k].expires_at > now + 300
          IN IF ~last'.force_refresh /\ usable
             THEN Len(last'.sent) = 0 /\ last'.why = "cache_hit"
             ELSE /\ Len(last'.sent) = 1
                  /\ (last'.net.k = "error"
                        => last'.why = "fetch_failed_transport" /\ last'.ret = PyNone)
                  /\ (last'.net.k = "response" /\ last'.net.status_code # 200
                        => last'.why = "fetch_failed_status" /\ last'.ret = PyNone)
      ]_vars

\* A forced refresh over a usable token posted once, failed, and the failure
\* came back to the caller
C3_Witness ==
    /\ last.op = "get_token"
    /\ last.force_refresh
    /\ Len(last.sent) = 1
    /\ last.why = "fetch_failed_transport"
    /\ tokens[SlotOf(last.kind)] # PyNone
    /\ tokens[SlotOf(last.kind)].expires_at > now + 300

\* The response of the last call is a 200 whose body is an object holding a
\* non-empty access_token
GotToken ==
    /\ last.op = "get_token"
    /\ last.net.k = "response"
    /\ last.net.status_code = 200
    /\ last.net.json # NotJson
    /\ last.net.json.t = "m"
    /\ Truthy(DictGet(last.net.json, "access_token"))

\* C4: after a successful fetch the stored expiry is the time of receipt plus
\* expires_in for every numeric expires_in, and plus 3600 when expires_in is
\* absent or not a number; in each case get_token succeeds and stores.
C4_ExpiryFromResponse ==
    GotToken
    => LET e == DictGet(last.net.json, "expires_in")
           k == SlotOf(last.kind)
       IN /\ last.why = "ok"
          /\ tokens[k] # PyNone
          /\ tokens[k].access_token = DictGet(last.net.json, "access_token")
          /\ tokens[k].expires_at = now + (IF e.t = "n" THEN e.n ELSE 3600)

\* The response of a step holds an access_token key in a JSON object
HasTokenKey(net) ==
    /\ net.json # NotJson
    /\ net.json.t = "m"
    /\ "access_token" \in DOMAIN net.json.m

ExpiresInConverts(e) ==
    \/ ~Truthy(e)
    \/ e.t = "n"
    \/ (e.t = "s" /\ \A i \in 1..Len(e.s) : e.s[i] \in {"0","1","2","3","4","5","6","7","8","9"})

C6_FailuresLogError ==
    (last.op = "get_token" /\ last.why \in {"fetch_failed_status", "fetch_failed_transport"})
    => /\ GlobalEntries # <<>>
       /\ "error" \in DOMAIN GlobalEntries[Len(GlobalEntries)].m

\* C6 amended: for both kinds, a fetch that ends in a transport failure
\* appends an entry carrying the error field, and a fetch that ends in a
\* response whose status is not 200 appends an entry carrying that response
\* (status and body) and no error field, before get_token fails.
C6_FailureTrace ==
    [][(last'.op = "get_token"
        /\ last'.why \in {"fetch_failed_status", "fetch_failed_transport"})
       => LET es == GlobalEntries'
              e == es[Len(es)].m
          IN /\ Len(es) = Len(GlobalEntries) + 2
             /\ e["operation"] = S(<<"token_response:", SlotOf(last'.kind)>>)
             /\ IF last'.why = "fetch_failed_transport"
                THEN /\ "error" \in DOMAIN e
                     /\ e["error"] = S(last'.net.msg)
                     /\ "response" \notin DOMAIN e
                ELSE /\ "error" \notin DOMAIN e
                     /\ "response" \in DOMAIN e
                     /\ e["response"].m["status_code"] = N(last'.net.status_code)
                     /\ "body" \in DOMAIN e["response"].m
      ]_vars

\* A clientops fetch hit a transport failure and the log ends with its error
C6_Witness ==
    /\ last.op = "get_token"
    /\ last.kind = "clientops"
    /\ last.why = "fetch_failed_transport"
    /\ "error" \in DOMAIN GlobalEntries[Len(GlobalEntries)].m

\* The bytes a base64 text stands for ("=" marks a padding position)
RECURSIVE B64Bytes(_)
B64Bytes(w) ==
    IF Len(w) < 4 THEN <<>>
    ELSE LET v == [i \in 1..4 |-> (CHOOSE j \in 1..65 : B64Alphabet[j] = w[i]) - 1]
         IN <<v[1] * 4 + v[2] \div 16>>
            \o (IF v[3] = 64 THEN <<>> ELSE <<(v[2] % 16) * 16 + v[3] \div 4>>)
            \o (IF v[4] = 64 THEN <<>> ELSE <<(v[3] % 4) * 64 + v[4]>>)
            \o B64Bytes(SubSeq(w, 5, Len(w)))

SampleIds == { <<"c","i","d">>, <<"a","b">>, <<"Q">> }
SampleSecrets == { <<"x">>, <<"s","_","9">>, <<"c","s","e","c","r","e","t">> }

\* The three-field form body of the clientops flow
ClientopsBody(id, secret) ==
    M(("grant_type" :> S(<<"client_credentials">>))
      @@ ("client_id" :> S(id)) @@ ("client_secret" :> S(secret)))

\* C7: for every client id and secret the general request carries
\* Authorization: Basic base64(id:secret) and the form body that is exactly
\* {grant_type: client_credentials}, the clientops request carries no
\* Authorization header and the body {grant_type, client_id, client_secret};
\* and the one request a fetch posts is the request prepared for its kind
\* from the credentials of its (region, env).
C7_PreparedRequests ==
    /\ \A id \in SampleIds, secret \in SampleSecrets :
         LET url == PINGONE_TOKEN_URLS[<<R_us, E_dev>>]
             g == prepare_general_request(id, secret, url)
             c == prepare_clientops_request(id, secret, url)
             auth == g.headers.m["Authorization"].s
             plain == id \o <<":">> \o secret
         IN /\ g.url = url /\ c.url = url
            /\ auth[1] = "Basic "
            /\ B64Bytes(Tail(auth)) = [i \in 1..Len(plain) |-> Ord(plain[i])]
            /\ g.data = M("grant_type" :> S(<<"client_credentials">>))
            /\ "Authorization" \notin DOMAIN c.headers.m
            /\ c.data = ClientopsBody(id, secret)
    /\ (last.op = "get_token" /\ last.sent # <<>>)
       => /\ Len(last.sent) = 1
          /\ <<last.region, last.env>> = <<R_us, E_dev>>
          /\ last.sent[1].url = <<"https://auth-", "u", "s", "-", "d", "e", "v", ".pingone.com/oauth2/token">>
          /\ IF SlotOf(last.kind) = "general"
             THEN /\ last.sent[1].headers.m["Authorization"] =
                       S(<<"Basic ", "Y","2","l","k","O","m","N","z","Z","W","N","y","Z","X","Q","=">>)
                  /\ last.sent[1].data = M("grant_type" :> S(<<"client_credentials">>))
             ELSE /\ "Authorization" \notin DOMAIN last.sent[1].headers.m
                  /\ last.sent[1].data =
                       ClientopsBody(<<"c","i","d","2">>, <<"c","s","e","c","r","e","t","2">>)

\* A general fetch posted the Basic header of cid:csecret
C7_Witness ==
    /\ last.op = "get_token"
    /\ last.kind = "general"
    /\ Len(last.sent) = 1
    /\ last.sent[1].headers.m["Authorization"] =
         S(<<"Basic ", "Y","2","l","k","O","m","N","z","Z","W","N","y","Z","X","Q","=">>)

\* C8: get_token with kind "client" does what get_token with kind
\* "clientops" does on the same cache, logger, time and response (clientops
\* slot, clientops request); with a kind outside general, clientops and
\* client it fails as unknown kind, posts nothing, appends no audit entry
\* and changes neither cache slot.
C8_KindAliasAndUnknown ==
    [][last'.op = "get_token"
       => /\ (last'.kind \notin {"general", "clientops", "client"}
                => /\ last'.why = "unknown_kind"
                   /\ last'.ret = PyNone
                   /\ last'.sent = <<>>
                   /\ tokens' = tokens
                   /\ loggers' = loggers
                   /\ g_logger' = g_logger)
          /\ (last'.kind = "client"
                => LET r == get_token("clientops", last'.region, last'.env,
                                      last'.force_refresh,
                                      IF last'.sent = <<>> THEN AnyNet ELSE last'.net,
                                      tokens, [loggers |-> loggers, g_logger |-> g_logger], now)
                   IN /\ last'.why = r.why
                      /\ last'.ret = r.ret
                      /\ last'.sent = r.sent
                      /\ tokens' = r.tokens
                      /\ loggers' = r.ls.loggers
                      /\ g_logger' = r.ls.g_logger
                      /\ tokens'["general"] = tokens["general"]
                      /\ \A i \in 1..Len(last'.sent) :
                           /\ "Authorization" \notin DOMAIN last'.sent[i].headers.m
                           /\ last'.sent[i].data =
                                ClientopsBody(<<"c","i","d","2">>, <<"c","s","e","c","r","e","t","2">>))
      ]_vars

\* A call with kind "client" fetched and stored a token in the clientops slot
C8_Witness ==
    /\ last.op = "get_token"
    /\ last.kind = "client"
    /\ last.why = "ok"
    /\ tokens["clientops"] # PyNone
    /\ tokens["clientops"].access_token = last.ret

\* C9: a get_token call that has to fetch, for a kind whose client id or
\* client secret variable is absent, fails as missing credentials when the
\* endpoint resolves, posting nothing, appending no audit entry and leaving
\* the cache as it was; when the endpoint does not resolve either, it fails
\* as endpoint not found.
C9_MissingCredentials ==
    [][( /\ last'.op = "get_token"
         /\ last'.kind \in ValidKinds
         /\ ~CredentialsPresent(last'.region, last'.env, SlotOf(last'.kind))
         /\ LET held == tokens[SlotOf(last'.kind)]
            IN last'.force_refresh \/ held = PyNone \/ held.expires_at <= now + 300 )
       => /\ last'.why = IF <<last'.region, last'.env>> \in TokenUrlKeys
                         THEN "missing_credentials" ELSE "endpoint_not_found"
          /\ last'.ret = PyNone
          /\ last'.sent = <<>>
          /\ tokens' = tokens
          /\ loggers' = loggers
          /\ g_logger' = g_logger
      ]_vars

\* A general call for us/qa, where only the client id is set, failed
C9_Witness ==
    /\ last.op = "get_token"
    /\ last.kind = "general"
    /\ <<last.region, last.env>> = <<R_us, E_qa>>
    /\ last.why = "missing_credentials"
    /\ last.sent = <<>>

\* The input keys whose lowercase form contains password, secret,
\* authorization or bearer
SensitiveInputKeys == {"PASSWORD", "client_secret", "Authorization", "Bearer"}

\* out is data with the value of every sensitive key replaced, at every
\* depth; without verbose a whole value may have been replaced instead
RECURSIVE Covered(_, _, _)
Covered(data, out, verbose) ==
    IF data.t = "m" THEN
        /\ out.t = "m"
        /\ DOMAIN out.m = DOMAIN data.m
        /\ \A key \in DOMAIN data.m :
             IF key \in SensitiveInputKeys
             THEN out.m[key] = S(<<"***REDACTED***">>)
             ELSE \/ ~verbose /\ out.m[key] = S(<<"***REDACTED***">>)
                  \/ Covered(data.m[key], out.m[key], verbose)
    ELSE IF data.t = "l" THEN
        /\ out.t = "l"
        /\ Len(out.l) = Len(data.l)
        /\ \A i \in 1..Len(data.l) : Covered(data.l[i], out.l[i], verbose)
    ELSE out = data

\* C10: in both verbosity modes redact_secrets replaces with the marker the
\* value of every mapping key whose lowercase form contains password,
\* secret, authorization or bearer, at every depth reached through mappings
\* and sequences.
C10_AlwaysRedacted ==
    rout # Pending => Covered(rdata, rout, rverbose)

\* Verbose redaction reached a Bearer key inside a list inside a mapping
C10_Witness ==
    /\ rverbose
    /\ rdata = M("body" :> L(<<M("Bearer" :> S(<<"v">>))>>))
    /\ rout = M("body" :> L(<<M("Bearer" :> S(<<"***REDACTED***">>))>>))

\* The input keys whose lowercase form contains token, key, credential or
\* access and none of the always-redacted words
QuietInputKeys == {"access_token", "apiKey"}

\* out is data with the value of every quiet-mode key replaced when verbose
\* is off and kept, redacted inside, when it is on
RECURSIVE QuietCovered(_, _, _)
QuietCovered(data, out, verbose) ==
    IF data.t = "m" THEN
        /\ out.t = "m"
        /\ DOMAIN out.m = DOMAIN data.m
        /\ \A key \in DOMAIN data.m :
             IF key \in QuietInputKeys
             THEN IF verbose
                  THEN QuietCovered(data.m[key], out.m[key], verbose)
                  ELSE out.m[key] = S(<<"***REDACTED***">>)
             ELSE \/ key \in SensitiveInputKeys /\ out.m[key] = S(<<"***REDACTED***">>)
                  \/ QuietCovered(data.m[key], out.m[key], verbose)
    ELSE IF data.t = "l" THEN
        /\ out.t = "l"
        /\ Len(out.l) = Len(data.l)
        /\ \A i \in 1..Len(data.l) : QuietCovered(data.l[i], out.l[i], verbose)
    ELSE out = data

\* C11: without verbose, redact_secrets replaces the value of every mapping
\* key whose lowercase form contains token, key, credential or access; with
\* verbose the value of such a key is kept, redacted recursively, unless the
\* key also matches the always-redacted words.
C11_QuietRedacted ==
    rout # Pending => QuietCovered(rdata, rout, rverbose)

\* Quiet redaction replaced an apiKey next to a kept name
C11_Witness ==
    /\ ~rverbose
    /\ rdata = M([k \in {"name", "apiKey"} |-> S(<<"v">>)])
    /\ rout = M([k \in {"name", "apiKey"} |->
                   IF k = "name" THEN S(<<"v">>) ELSE S(<<"***REDACTED***">>)])

\* The keys redact_secrets matches under a verbosity, among the input keys
MatchedInputKeys(verbose) ==
    IF verbose THEN SensitiveInputKeys ELSE SensitiveInputKeys \cup QuietInputKeys

IsScalar(v) == v.t \notin {"m", "l"}

\* b has the mapping keys and the sequence lengths of a at every level
RECURSIVE SameShape(_, _)
SameShape(a, b) ==
    IF a.t = "m" THEN
        /\ b.t = "m"
        /\ DOMAIN b.m = DOMAIN a.m
        /\ \A key \in DOMAIN a.m : SameShape(a.m[key], b.m[key])
    ELSE IF a.t = "l" THEN
        /\ b.t = "l"
        /\ Len(b.l) = Len(a.l)
        /\ \A i \in 1..Len(a.l) : SameShape(a.l[i], b.l[i])
    ELSE IsScalar(b)

\* C12 as written: redact(redact(x)) = redact(x), and redact(x) has the
\* mapping keys and sequence lengths of x at every level.
C12_ShapePreserved ==
    rout # Pending
    => /\ redact_secrets(rout, rverbose) = rout
       /\ SameShape(rdata, rout)

\* b is a with the value of every matched key, whatever its shape, replaced
\* by the marker, and nothing else changed
RECURSIVE ShapeKept(_, _, _)
ShapeKept(a, b, verbose) ==
    IF a.t = "m" THEN
        /\ b.t = "m"
        /\ DOMAIN b.m = DOMAIN a.m
        /\ \A key \in DOMAIN a.m :
             IF key \in MatchedInputKeys(verbose)
             THEN b.m[key] = S(<<"***REDACTED***">>)
             ELSE ShapeKept(a.m[key], b.m[key], verbose)
    ELSE IF a.t = "l" THEN
        /\ b.t = "l"
        /\ Len(b.l) = Len(a.l)
        /\ \A i \in 1..Len(a.l) : ShapeKept(a.l[i], b.l[i], verbose)
    ELSE b = a

\* C12 amended: redact(redact(x)) = redact(x); redact(x) has the mapping
\* keys and sequence lengths of x at every level that is not below a
\* matched key, and differs from x only in that the whole value of each
\* matched key, scalar, mapping or sequence, is the marker.
C12_IdempotentShapeKept ==
    rout # Pending
    => /\ redact_secrets(rout, rverbose) = rout
       /\ ShapeKept(rdata, rout, rverbose)

\* A list holding a mapping with a matched scalar kept its shape
C12_Witness ==
    /\ rdata = L(<<S(<<"v">>), M("PASSWORD" :> S(<<"v">>))>>)
    /\ rout = L(<<S(<<"v">>), M("PASSWORD" :> S(<<"***REDACTED***">>))>>)
    /\ redact_secrets(rout, rverbose) = rout

\* C13: every log_entry call appends exactly one entry at the end of the
\* logger's sequence and leaves the earlier entries (and every other
\* logger) as they were; the request and the response stored are the
\* arguments redacted under the logger's verbose flag, and the error string
\* is stored as given.
C13_AppendOnly ==
    [][call'.op = "log_entry"
       => LET i == call'.logger
              old == loggers[i].entries
              new == loggers'[i].entries
              e == new[Len(new)].m
          IN /\ Len(new) = Len(old) + 1
             /\ SubSeq(new, 1, Len(old)) = old
             /\ Len(loggers') = Len(loggers)
             /\ \A j \in 1..Len(loggers) : j # i => loggers'[j] = loggers[j]
             /\ loggers'[i].verbose = loggers[i].verbose
             /\ (Truthy(call'.request) => "request" \in DOMAIN e)
             /\ (Truthy(call'.response) => "response" \in DOMAIN e)
             /\ (Truthy(call'.error) => "error" \in DOMAIN e)
             /\ ("request" \in DOMAIN e
                   => ShapeKept(call'.request, e["request"], loggers[i].verbose))
             /\ ("response" \in DOMAIN e
                   => ShapeKept(call'.response, e["response"], loggers[i].verbose))
             /\ ("error" \in DOMAIN e => e["error"] = call'.error)
      ]_vars

\* A verbose logger took a second entry whose response keeps the apiKey
C13_Witness ==
    /\ call.op = "log_entry"
    /\ loggers[call.logger].verbose
    /\ Len(loggers[call.logger].entries) = 2
    /\ Truthy(call.response)
    /\ loggers[call.logger].entries[2].m["response"].m["body"].l[1].m["apiKey"] = S(<<"k">>)
    /\ loggers[call.logger].entries[2].m["request"].m["headers"].m["Authorization"]
         = S(<<"***REDACTED***">>)

\* C14 as written: write_to_file returns no path exactly when zero entries
\* were logged during the lifetime of the logger instance.
C14_NoPathIffNeverLogged ==
    call.op = "write_to_file"
    => ((call.path = PyNone) <=> (LoggedCount(call.logger) = 0))

\* C14 amended: write_to_file returns no path and creates no file exactly
\* when the logger holds no entries at the call (none logged since it was
\* constructed or since its last clear()); otherwise it returns the path of
\* a file that holds exactly the entries the logger holds, in insertion
\* order; it changes no logger and no other file.
C14_NoPathIffEmpty ==
    [][call'.op = "write_to_file"
       => LET lg == loggers[call'.logger]
          IN /\ loggers' = loggers
             /\ IF lg.entries = <<>>
                THEN call'.path = PyNone /\ files' = files
                ELSE /\ call'.path # PyNone
                     /\ call'.path.s = <<"output-", ToString(now), ".json">>
                     /\ DOMAIN files' = DOMAIN files \cup {call'.path.s}
                     /\ files'[call'.path.s].l = lg.entries
                     /\ \A p \in DOMAIN files : p # call'.path.s => files'[p] = files[p]
      ]_vars

\* A logger holding two entries was written to a file
C14_Witness ==
    /\ call.op = "write_to_file"
    /\ call.path # PyNone
    /\ Len(loggers[call.logger].entries) = 2
    /\ files[call.path.s].l = loggers[call.logger].entries

\* The cache slot of the client's credential type
ClientSlot == IF client.credential_type = "general" THEN "general" ELSE "clientops"

\* The operation name of the business entry of the last client call
CallOperation ==
    S(<<call.method, " ">>
      \o (IF call.via = "get_store" THEN <<"/stores/", "s9">> ELSE <<"/users">>))

\* The entries logger i gained in the step
Added(i) ==
    SubSeq(loggers'[i].entries,
           (IF i \in DOMAIN loggers THEN Len(loggers[i].entries) ELSE 0) + 1,
           Len(loggers'[i].entries))

\* Entry e holds the status, the headers and the body, parsed or raw and
\* redacted under verbose, of the response net
HoldsResponse(e, net, verbose) ==
    /\ "response" \in DOMAIN e.m
    /\ e.m["response"].m["status_code"] = N(net.status_code)
    /\ e.m["response"].m["headers"] = net.headers
    /\ ShapeKept(IF net.json = [t |-> "notjson"] THEN S(net.text) ELSE net.json,
                 e.m["response"].m["body"], verbose)

\* C15: for token fetches and business calls alike, an HTTP response that
\* was received has its entry (status, headers, parsed-or-raw body) in the
\* log whatever its status, ahead of the error entry a failing status
\* leads to; and the token_request entry precedes the token_response entry.
C15_ResponseLoggedFirst ==
    [][call'.op = "request"
       => LET i == client.logger
              added == Added(i)
              verbose == loggers'[i].verbose
              t == IF call'.tsent = <<>> THEN 0 ELSE 2
          IN /\ (call'.tsent # <<>>
                   => /\ Len(added) >= 2
                      /\ added[1].m["operation"] = S(<<"token_request:", ClientSlot>>)
                      /\ "request" \in DOMAIN added[1].m
                      /\ added[2].m["operation"] = S(<<"token_response:", ClientSlot>>)
                      /\ (call'.tnet.k = "response"
                            => HoldsResponse(added[2], call'.tnet, verbose)))
             /\ (call'.sent # <<>> /\ call'.bnet.k = "response"
                   => /\ Len(added) >= t + 1
                      /\ added[t + 1].m["operation"] = CallOperation'
                      /\ HoldsResponse(added[t + 1], call'.bnet, verbose)
                      /\ "error" \notin DOMAIN added[t + 1].m
                      /\ (call'.why = "http_error"
                            => /\ Len(added) = t + 2
                               /\ "error" \in DOMAIN added[t + 2].m))
      ]_vars

\* A business call answered 404 after a token fetch: four entries, the
\* response entry ahead of the error entry
C15_Witness ==
    /\ call.op = "request"
    /\ call.tsent # <<>>
    /\ call.bnet.k = "response"
    /\ call.bnet.status_code = 404
    /\ call.why = "http_error"
    /\ Len(loggers[client.logger].entries) = 4
    /\ "response" \in DOMAIN loggers[client.logger].entries[3].m
    /\ "error" \in DOMAIN loggers[client.logger].entries[4].m

\* C16: the outcome of a business call is decided by the status alone: every
\* 2xx response returns {success: true, status_code, data} with data the
\* parsed body or the raw text, and every response with a status outside
\* 200..299 raises after it was logged.
C16_StatusDecides ==
    (call.op = "request" /\ call.bnet.k = "response")
    => IF call.bnet.status_code \in 200..299
       THEN /\ call.why = "ok"
            /\ call.ret = [success |-> TRUE, status_code |-> call.bnet.status_code,
                           data |-> IF call.bnet.json = [t |-> "notjson"]
                                    THEN S(call.bnet.text) ELSE call.bnet.json]
       ELSE /\ call.why = "http_error"
            /\ call.ret = PyNone
            /\ "response" \in DOMAIN
                 loggers[client.logger].entries[Len(loggers[client.logger].entries) - 1].m

\* The call failed after it had issued an HTTP call
FailedAfterHttp ==
    /\ call.op = "request"
    /\ call.tsent # <<>> \/ call.sent # <<>>
    /\ call.why \in {"fetch_failed_transport", "fetch_failed_status", "malformed_response",
                     "int_conversion_error", "transport_error", "http_error"}

\* C17: whenever get_token or a client verb fails after having issued an
\* HTTP call, the shared audit sequence (that of the process-wide logger)
\* already holds an entry for that call carrying an error field or the
\* failing response body.
C17_FailureInSharedLog ==
    FailedAfterHttp
    => /\ g_logger # 0
       /\ GlobalEntries # <<>>
       /\ LET e == GlobalEntries[Len(GlobalEntries)].m
          IN /\ e["operation"] =
                  IF call.sent # <<>> THEN CallOperation
                  ELSE S(<<"token_response:", ClientSlot>>)
             /\ \/ "error" \in DOMAIN e
                \/ "response" \in DOMAIN e /\ "body" \in DOMAIN e["response"].m

\* C18: a get/post/put/patch/delete call on a client whose (region, env) at
\* that call has no base URL fails as base URL not found before any token
\* lookup, HTTP call or audit entry, and a call whose pair has one never
\* fails that way.
C18_BaseUrlFirst ==
    [][call'.op = "request"
       => IF client.region \in {R_us, R_uk, R_can, R_anz}
             /\ client.env \in {E_dev, E_qa, E_uat, E_prod}
          THEN call'.why # "base_url_not_found"
          ELSE /\ call'.why = "base_url_not_found"
               /\ call'.ret = PyNone
               /\ call'.tsent = <<>>
               /\ call'.sent = <<>>
               /\ call'.twhy = ""
               /\ tokens' = tokens
               /\ loggers' = loggers
               /\ g_logger' = g_logger
      ]_vars

\* A client that had fetched a token as us/dev was moved to eu/dev and its
\* next call failed at the base URL
C18_Witness ==
    /\ call.op = "request"
    /\ call.why = "base_url_not_found"
    /\ client.region = R_eu
    /\ tokens[ClientSlot] # PyNone
    /\ loggers[client.logger].entries # <<>>

\* C19: the headers of every business request contain X-Store-Id exactly
\* when needs_store_header was left true and the client has a store id
\* configured, with that id as value; they always contain Authorization:
\* Bearer <token>, the token get_token returned for the client's credential
\* kind; the request of get_store never carries X-Store-Id.
C19_RequestHeaders ==
    (call.op = "request" /\ call.sent # <<>>)
    => LET h == call.sent[1].headers.m
           configured == client.store_id \notin {PyNone, S(<<>>)}
       IN /\ Len(call.sent) = 1
          /\ ("X-Store-Id" \in DOMAIN h) <=> (call.needs_store_header /\ configured)
          /\ ("X-Store-Id" \in DOMAIN h => h["X-Store-Id"] = client.store_id)
          /\ call.twhy \in {"ok", "cache_hit"}
          /\ call.token = tokens[ClientSlot].access_token
          /\ call.token = S(<<"tokA">>)
          /\ h["Authorization"] = S(<<"Bearer ", "tokA">>)
          /\ (call.via = "get_store" => "X-Store-Id" \notin DOMAIN h)

\* get_store on a client with a store id sent its request without X-Store-Id
C19_Witness ==
    /\ call.op = "request"
    /\ call.via = "get_store"
    /\ call.sent # <<>>
    /\ client.store_id = S(<<"s1">>)
    /\ "X-Store-Id" \notin DOMAIN call.sent[1].headers.m
    /\ call.sent[1].headers.m["Authorization"] = S(<<"Bearer ", "tokA">>)

\* C20: for every client request that triggers a token fetch, whatever
\* get_logger and reset_logger calls came earlier, the token_request entry,
\* the token_response entry and the entry of the business call are the last
\* entries, in that order, of one logger, the process-wide one that
\* write_to_file is asked to flush.
C20_OneLogger ==
    (call.op = "request" /\ call.tsent # <<>> /\ call.sent # <<>>)
    => /\ g_logger # 0
       /\ LET es == GlobalEntries
              b == IF call.why = "http_error" THEN 2 ELSE 1
              n == Len(es) - b
          IN /\ n >= 2
             /\ es[n - 1].m["operation"] = S(<<"token_request:", ClientSlot>>)
             /\ es[n].m["operation"] = S(<<"token_response:", ClientSlot>>)
             /\ es[n + 1].m["operation"] = CallOperation

-----------------------------------------------------------------------------
\* How many of the ids of a batch were added to "results" and to "errors"
RECURSIVE CountPer(_, _)
CountPer(per, field) ==
    IF per = <<>> THEN 0
    ELSE (IF Head(per)[field] THEN 1 ELSE 0) + CountPer(Tail(per), field)

\* The path a batched get handler asks for
BatchPrefix(handler) ==
    CASE handler = "get_user" -> "/users/"
      [] handler = "get_group" -> "/groups/"
      [] handler = "get_org" -> "/orgs/"
      [] handler = "get_product" -> "/products/"
      [] handler = "get_store" -> "/stores/"

\* C29: a batched get handler makes exactly one client call per id, in the
\* order of the ids and whatever became of the earlier ids; when it returns,
\* every id is in exactly one of "results" and "errors", and "success" is
\* true exactly when "errors" is empty.
C29_BatchAccounting ==
    call.op = "batch" =>
        /\ Len(call.per) = Len(call.ids)
        /\ \A i \in 1..Len(call.ids) :
             /\ call.per[i].endpoint = <<BatchPrefix(call.handler), call.ids[i]>>
             /\ Len(call.per[i].sent) <= 1
             /\ call.per[i].result # call.per[i].error
        /\ Len(call.results) = CountPer(call.per, "result")
        /\ Len(call.errors) = CountPer(call.per, "error")
        /\ Len(call.results) + Len(call.errors) = Len(call.ids)
        /\ call.success = (call.errors = <<>>)


-----------------------------------------------------------------------------
\* C30: a set_config call that raises because the region or the env is not
\* valid leaves the configuration as it was: the file and the region, env
\* and store_id in memory are what they were before the call.
C30_FailedSetConfigChangesNothing ==
    [][(call'.op = "set_config" /\ call'.raised)
         => (config' = config /\ config_file' = config_file)]_vars


-----------------------------------------------------------------------------
\* C24: every token returned by get_token(kind, region, env) was issued by
\* the token endpoint of that same (region, env), whatever pairs the earlier
\* get_token calls for the kind used.
C24_TokenOfThePair ==
    ( /\ last.op = "get_token"
      /\ last.kind \in ValidKinds
      /\ last.why \in {"ok", "cache_hit"} )
    => LET k == SlotOf(last.kind)
       IN /\ issued[k] # PyNone
          /\ last.ret = tokens[k].access_token
          /\ <<issued[k].region, issued[k].env>> = <<last.region, last.env>>


-----------------------------------------------------------------------------
\* C26 as written: every token get_token returns, from the cache or freshly
\* fetched, has an expiry strictly later than now + 5 minutes when it is
\* returned, for every expires_in the token endpoint sends.
C26_ReturnedTokenOutlivesMargin ==
    ( /\ last.op = "get_token"
      /\ last.kind \in ValidKinds
      /\ last.why \in {"ok", "cache_hit"} )
    => tokens[SlotOf(last.kind)].expires_at > now + MARGIN

\* C26: every token get_token returns from the cache has an expiry strictly
\* later than now + 5 minutes when it is returned.  A freshly fetched token
\* is returned whatever its expiry, which is now plus the expires_in of the
\* response (3600 when that is absent or 0): later than now + 5 minutes
\* exactly when that number exceeds 300.
C26_CachedTokenOutlivesMargin ==
    ( /\ last.op = "get_token"
      /\ last.kind \in ValidKinds
      /\ last.why \in {"ok", "cache_hit"} )
    => LET k == SlotOf(last.kind)
           e == DictGet(last.net.json, "expires_in")
           secs == IF e.t = "n" /\ e.n # 0 THEN e.n ELSE 3600
       IN /\ last.ret = tokens[k].access_token
          /\ last.why = "cache_hit" => tokens[k].expires_at > now + MARGIN
          /\ (last.why = "ok" /\ e.t \in {"n", "none"})
               => /\ tokens[k].expires_at = now + secs
                  /\ (tokens[k].expires_at > now + MARGIN) = (secs > 300)

\* A token that lives one minute was fetched and returned
C26_Witness ==
    /\ last.op = "get_token"
    /\ last.why = "ok"
    /\ last.ret = S(TokA)
    /\ DictGet(last.net.json, "expires_in") = N(60)
    /\ tokens[SlotOf(last.kind)].expires_at = now + 60


-----------------------------------------------------------------------------
\* The entries with the operation name of the business call among es
RECURSIVE BusinessEntries(_, _)
BusinessEntries(es, operation) ==
    IF es = <<>> THEN <<>>
    ELSE (IF Head(es).m["operation"] = operation THEN <<Head(es)>> ELSE <<>>)
         \o BusinessEntries(Tail(es), operation)

\* C27: every client verb call that reaches the HTTP step appends exactly
\* one audit entry for the business call, whatever the outcome: a 2xx
\* response, a non-2xx response or a transport error.
C27_OneBusinessEntry ==
    [][(call'.op = "request" /\ call'.sent # <<>>)
       => Len(BusinessEntries(Added(client.logger), CallOperation')) = 1]_vars


-----------------------------------------------------------------------------
\* The client secrets of the environment, the Basic values built from the
\* general credentials, and the tokens the token endpoint issues
EnvSecrets ==
    { Environ[n] : n \in { m \in DOMAIN Environ : m[Len(m)] = "_CLIENT_SECRET" } }

BasicValues ==
    { b64encode(get_credential_env_var(p[1], p[2], "general").client_id.s \o <<":">>
                \o get_credential_env_var(p[1], p[2], "general").client_secret.s) :
        p \in { q \in ArgPairs : CredentialsPresent(q[1], q[2], "general") } }

TokenValues == {TokA, TokB}

BearerValues == { <<"Bearer ", tok[1]>> : tok \in TokenValues }

\* Some text inside the value v contains one of the needles
RECURSIVE Mentions(_, _)
Mentions(v, needles) ==
    IF v.t = "s" THEN \E n \in needles : Contains(n, v.s)
    ELSE IF v.t = "m" THEN \E key \in DOMAIN v.m : Mentions(v.m[key], needles)
    ELSE IF v.t = "l" THEN \E i \in 1..Len(v.l) : Mentions(v.l[i], needles)
    ELSE FALSE

\* The loggers after a run that starts from the logger state ls0: a general
\* and a clientops token fetch made with client_secret and answered with the
\* token tok, then a business call that carries tok and is answered 404
AuditRun(ls0, client_secret, tok, t) ==
    LET url == PINGONE_TOKEN_URLS[<<R_us, E_dev>>]
        net == Response(200, TokenBody(tok, N(3600)), <<"{token}">>)
        c == APIClient(R_us, E_dev, S(<<"s1">>), "general", FALSE, ls0).client
    IN Bind(PostAndLog("general", prepare_general_request(<<"c","i","d">>, client_secret, url),
                       ls0, net, t), LAMBDA f1 :
         Bind(PostAndLog("clientops",
                         prepare_clientops_request(<<"c","i","d">>, client_secret, url),
                         f1.ls, net, t), LAMBDA f2 :
           make_request(c, "GET", <<"/users">>, TRUE, PyNone, PyNone, AnyNet,
                        Response(404, ErrorBody, <<"{error}">>),
                        [general |-> [access_token |-> S(tok), expires_at |-> t + 3600,
                                      client_id |-> S(<<"c","i","d">>),
                                      client_secret |-> S(client_secret)],
                         clientops |-> PyNone],
                        f2.ls, t).ls.loggers))

\* C25: no audit entry holds a client secret, a Basic authorization value or
\* the Bearer value of a business request, in either verbosity mode, and no
\* entry of a non-verbose logger holds an issued access token; two runs that
\* differ only in the client secret and, for a non-verbose logger, in the
\* token issued, leave identical entry sequences.
C25_EntriesFreeOfSecrets ==
    /\ \A i \in 1..Len(loggers) : \A j \in 1..Len(loggers[i].entries) :
         /\ ~Mentions(loggers[i].entries[j], EnvSecrets \cup BasicValues \cup BearerValues)
         /\ ~loggers[i].verbose => ~Mentions(loggers[i].entries[j], TokenValues)
    /\ LET ls0 == get_logger([loggers |-> loggers, g_logger |-> g_logger], FALSE)
       IN AuditRun(ls0, <<"c","s","e","c","r","e","t">>, TokA, now)
            = AuditRun(ls0, <<"x">>,
                       IF ls0.loggers[ls0.g_logger].verbose THEN TokA ELSE TokB, now)

\* A non-verbose logger holds the entries of a general token fetch and of the
\* business call made with the token, with the Basic value, the access
\* token and the Bearer value replaced by the marker
C25_Witness ==
    /\ call.op = "request"
    /\ call.tsent # <<>>
    /\ call.sent # <<>>
    /\ call.token = S(TokA)
    /\ client.credential_type = "general"
    /\ ~loggers[client.logger].verbose
    /\ Len(loggers[client.logger].entries) >= 3
    /\ LET es == loggers[client.logger].entries
       IN /\ es[1].m["request"].m["headers"].m["Authorization"] = S(<<"***REDACTED***">>)
          /\ es[2].m["response"].m["body"].m["access_token"] = S(<<"***REDACTED***">>)
          /\ es[3].m["request"].m["headers"].m["Authorization"] = S(<<"***REDACTED***">>)


-----------------------------------------------------------------------------
\* C22: after clear_cache, get_token_info returns None for both kinds and
\* the loggers and their entries are as before; a get_token call that finds
\* its slot empty fetches (it is never a cache hit, and posts once when the
\* endpoint and the credentials resolve), also when the token cleared was
\* still outside the 5-minute margin.
C22_ClearCacheEmptiesSlots ==
    [][/\ last'.op = "clear_cache"
          => /\ \A k \in {"general", "clientops"} : get_token_info(tokens', k) = PyNone
             /\ loggers' = loggers
             /\ g_logger' = g_logger
       /\ ( /\ last'.op = "get_token"
            /\ last'.kind \in ValidKinds
            /\ tokens[SlotOf(last'.kind)] = PyNone )
          => /\ last'.why \in FetchOutcomes
             /\ ( /\ <<last'.region, last'.env>> \in TokenUrlKeys
                  /\ CredentialsPresent(last'.region, last'.env, SlotOf(last'.kind)) )
                => Len(last'.sent) = 1
      ]_vars

\* clear_cache emptied a slot whose token was outside the margin, with
\* entries in the log
C22_Witness ==
    /\ last.op = "clear_cache"
    /\ last.held["general"] # PyNone
    /\ last.held["general"].expires_at > now + MARGIN
    /\ tokens["general"] = PyNone
    /\ tokens["clientops"] = PyNone
    /\ GlobalEntries # <<>>

\* C23: the slot of a kind changes only when a get_token call for that kind
\* completes a successful fetch, which overwrites it, and when clear_cache
\* empties it; cache hits, failed calls (failed forced refreshes too), calls
\* for the other kind, get_token_info, format_token_display and the passage
\* of time leave it as it was.
C23_SlotFrame ==
    [][\A k \in {"general", "clientops"} :
         /\ tokens'[k] # tokens[k]
              => \/ /\ last'.op = "get_token"
                    /\ SlotOf(last'.kind) = k
                    /\ last'.why = "ok"
                 \/ last'.op = "clear_cache" /\ tokens'[k] = PyNone
         /\ (last'.op = "get_token" /\ SlotOf(last'.kind) = k /\ last'.why = "ok")
              => /\ tokens'[k] # PyNone
                 /\ tokens'[k].access_token = last'.ret
                 /\ tokens'[k].access_token = DictGet(last'.net.json, "access_token")
         /\ last'.op = "clear_cache" => tokens'[k] = PyNone
         /\ ( \/ last'.op \in {"tick", "get_token_info", "format_token_display"}
              \/ last'.op = "get_token" /\ last'.why # "ok"
              \/ last'.op = "get_token" /\ SlotOf(last'.kind) # k )
              => tokens'[k] = tokens[k]
      ]_vars

\* A forced refresh that the token endpoint refused left the token in place
C23_Witness ==
    /\ last.op = "get_token"
    /\ last.force_refresh
    /\ last.why = "fetch_failed_status"
    /\ tokens[SlotOf(last.kind)] # PyNone
    /\ tokens[SlotOf(last.kind)].access_token = S(TokB)


-----------------------------------------------------------------------------
\* C28: get_token is single-flight per kind: when two get_token calls for
\* the same kind overlap on an empty slot, at most one request goes to the
\* token endpoint and both callers receive the same token.
C28_SingleFlight ==
    \A i, j \in 1..Len(threads) :
        ( /\ i \in threads[j].overlaps
          /\ threads[i].kind = threads[j].kind
          /\ threads[i].pc = "done"
          /\ threads[j].pc = "done" )
        => /\ threads[i].posts + threads[j].posts <= 1
           /\ (threads[i].ret # PyNone /\ threads[j].ret # PyNone)
                => threads[i].ret = threads[j].ret


-----------------------------------------------------------------------------
\* C21: every command invocation during which at least one audit entry was
\* logged ends with exactly one write_to_file call, which writes those
\* entries to one file; so for tokens view as for users, groups, orgs,
\* stores and products.
C21_LoggingCommandWritesOneFile ==
    (call.op = "command" /\ call.logged > 0)
    => /\ call.writes = 1
       /\ call.path # PyNone
       /\ call.path.s \in DOMAIN files
       /\ files[call.path.s] = L(GlobalEntries)


====
